---- MODULE Spec2Model ----
(***************************************************************************)
(* Verification model of gcli2api: the credential storage adapters         *)
(* (PostgresManager, ValkeyManager), credential selection with per-model   *)
(* cooldowns, the OpenAI streaming converter (convert_streaming_response), *)
(* the fake-streaming generator (fake_stream_response), the request path  *)
(* of chat_completions with openai_request_to_gemini_payload, its unary   *)
(* answer with gemini_response_to_openai and the image uploader, and the  *)
(* model listing.                                                          *)
(*                                                                         *)
(* Nine specifications share the module:                                   *)
(*   SpecStore   the storage adapter, one backend per behaviour            *)
(*   SpecSelect  credential selection on the relational backend            *)
(*   SpecSSE     one SSE response: openai_stream_generator (direct or      *)
(*               anti-truncation) or fake_stream_response.stream_generator *)
(*   SpecConfig  the configuration cache of the storage adapter            *)
(*   SpecChat    one chat_completions request, up to the backend call      *)
(*   SpecTranslate  the answer to one request sent: the unary reply, one    *)
(*               translated stream chunk, or one remote image upload       *)
(*   SpecModels  one GET /v1/models request                                *)
(*   SpecTasks   two concurrent storage calls, one step per awaited        *)
(*               statement                                                 *)
(*   SpecBoth    the same calls made on both backends side by side         *)
(***************************************************************************)
EXTENDS Integers, Sequences, FiniteSets, TLC

VARIABLES
    backend,    \* "pg" | "vk" | "both": the storage backend the environment selected
    pg,         \* PostgresManager: [is_antigravity -> table], table: filename -> row
    vkHash,     \* ValkeyManager: [is_antigravity -> [filename -> hash]], hash: field -> JSON text
    vkIndex,    \* ValkeyManager: [is_antigravity -> index set of filenames]
    now,        \* time.time()
    nops,       \* number of storage calls made so far
    ret         \* the last storage call: its name, arguments, result, and the state before it

storeVars == <<backend, pg, vkHash, vkIndex, now, nops, ret>>

VARIABLES
    mode,       \* "none" | "direct" | "antitrunc" | "fake": the SSE response being produced
    hasIter,    \* hasattr(gemini_response, 'body_iterator')
    picgo,      \* image rehosting is enabled (PICGO_UPLOAD_ENABLED and PICGO_API_KEY)
    pc,         \* where the response generator stands
    accumulated_text,   \* _accumulated_text
    out,        \* the frames yielded to the client so far
    nchunks,    \* number of upstream chunks consumed
    lastTrim,   \* what the trim did with the last upstream JSON frame
    cancelled,  \* the client connection was cancelled
    clock,      \* seconds since the fake-streaming generator started
    task,       \* the background backend task: [state, created, delay, response]
    hbAt        \* the clock values at which heartbeats were yielded

sseVars == <<mode, hasIter, picgo, pc, accumulated_text, out, nchunks, lastTrim,
             cancelled, clock, task, hbAt>>

VARIABLES
    initialized,  \* _initialized of the storage manager
    cfgDb,        \* the backend's config contents: key -> stored text
    cfgCache,     \* _config_cache: key -> value
    cfgLoaded     \* _config_loaded

cfgVars == <<initialized, cfgDb, cfgCache, cfgLoaded>>

VARIABLES
    request,          \* the chat-completions request received: token check, messages, max_tokens
    chatpc,           \* "idle" | "received" | "done": position of chat_completions
    reply,            \* what chat_completions answered
    api_payload,      \* the payload handed to send_gemini_request (sent |-> FALSE when none)
    selections,       \* number of cred_mgr.get_valid_credential() calls
    call_count        \* number of cred_mgr.increment_call_count() calls

chatVars == <<request, chatpc, reply, api_payload, selections, call_count>>

VARIABLES
    tasks       \* the storage calls in flight, one per concurrent request: where each stands

taskVars == <<tasks>>

\* An initialized manager whose configuration is not in play (the
\* specifications of the credential store and of the SSE responses)
CfgIdle ==
    /\ initialized = TRUE /\ cfgDb = <<>> /\ cfgCache = <<>> /\ cfgLoaded = FALSE

NoTask == [state |-> "none", created |-> 0, delay |-> 0, response |-> "none"]
NoTrim == [kind |-> "none", json |-> FALSE, cands |-> <<>>, input |-> <<>>, log |-> <<>>,
           emitted |-> FALSE,
           frame |-> 0]

\* No SSE response is in progress (the storage specifications)
SseIdle ==
    /\ mode = "none" /\ hasIter = FALSE /\ picgo = FALSE /\ pc = "end"
    /\ accumulated_text = <<>> /\ out = <<>> /\ nchunks = 0
    /\ lastTrim = NoTrim /\ cancelled = FALSE /\ clock = 0
    /\ task = NoTask /\ hbAt = <<>>

-----------------------------------------------------------------------------
(* Bounds and input domains of the storage model                           *)

MaxOps == 3
MaxCooldown == 2

\* Filenames are character sequences, so that SQL's LIKE '%' || f is computed.
Filenames == { <<"a">>, <<"b", "a">> }
Namespaces == BOOLEAN
Tokens == {"", "t1", "t2"}
CredFields == {"refresh_token", "access_token"}
ModelKeys == {"", "m1", "m2"}
NoneKey == "None"

\* Credential bundles: dicts with any subset of the two fields.
Bundles ==
    { c \in UNION { [D -> Tokens \cup {"x"}] : D \in SUBSET CredFields } :
        /\ ("access_token" \in DOMAIN c => c["access_token"] = "x")
        /\ ("refresh_token" \in DOMAIN c => c["refresh_token"] \in Tokens) }

EmptyMap == [x \in {} |-> 0]

\* dict.get(key, default)
DictGet(d, k, default) == IF k \in DOMAIN d THEN d[k] ELSE default

\* d with d[k] = v
DictSet(d, k, v) == [x \in DOMAIN d \cup {k} |-> IF x = k THEN v ELSE d[x]]

\* d without key k (dict.pop(k, None))
DictPop(d, k) == [x \in DOMAIN d \ {k} |-> d[x]]

\* Python truthiness of a string
Truthy(s) == s # "" /\ s # NoneKey

\* No chat-completions request is in play (the storage and SSE specifications)
NoTokens == [none |-> TRUE, n |-> 0]
NoRequest == [authorized |-> FALSE, messages |-> <<>>, max_tokens |-> NoTokens,
              top_k |-> NoTokens]
NoResponse == [status |-> 0, content |-> <<>>]
NoPayload == [sent |-> FALSE, compatibility_mode |-> FALSE, messages |-> <<>>,
              request |-> EmptyMap]

ChatIdle ==
    /\ request = NoRequest /\ chatpc = "idle" /\ reply = NoResponse
    /\ api_payload = NoPayload /\ selections = 0 /\ call_count = 0

\* No storage call is in flight
TasksIdle == tasks = <<>>

-----------------------------------------------------------------------------
(* JSON text of the string values the bundles carry                        *)

\* json.dumps(s) for a str s: the text between double quotes
JsonDumps(s) == "\"" \o s \o "\""

\* json.loads(text); a text that is no JSON document raises, and the callers
\* keep the raw text (valkey_manager.py:144-147, 186-189)
JsonLoads(text) ==
    IF \E s \in Tokens \cup {"x"} : JsonDumps(s) = text
    THEN CHOOSE s \in Tokens \cup {"x"} : JsonDumps(s) = text
    ELSE CASE text = "true"  -> TRUE
           [] text = "false" -> FALSE
           [] text = "[]"    -> <<>>
           [] text = "[429]" -> <<429>>
           [] text = "null"  -> "None"
           [] OTHER          -> text

\* json.dumps(credential_data) stored as JSONB: every value as JSON text
JsonbOf(c) == [k \in DOMAIN c |-> JsonDumps(c[k])]

\* _parse_jsonb(row["credential_data"], {})
ParseJsonb(j) == [k \in DOMAIN j |-> JsonLoads(j[k])]


-----------------------------------------------------------------------------
(* PostgresManager (src/src/storage/postgres_manager.py)                   *)

NoFile == <<>>

STATE_FIELDS == {"error_codes", "disabled", "last_success", "user_email", "model_cooldowns"}

\* State updates the callers pass to update_credential_state.
StateUpdates ==
    { [disabled |-> TRUE], [disabled |-> FALSE], [error_codes |-> <<429>>],
      [call_count |-> 7] }

\* g LIKE '%' || f
IsSuffix(f, g) ==
    /\ Len(f) <= Len(g)
    /\ SubSeq(g, Len(g) - Len(f) + 1, Len(g)) = f

\* COALESCE(MAX(rotation_order), -1) + 1
NextRotationOrder(tbl) ==
    IF DOMAIN tbl = {} THEN 0
    ELSE 1 + CHOOSE n \in {tbl[g].rotation_order : g \in DOMAIN tbl} :
                 \A g \in DOMAIN tbl : tbl[g].rotation_order <= n

\* The row INSERT creates: the column defaults of _create_tables, with
\* last_success set to the insertion time.
NewRow(credential_data, rotation_order, current_ts) ==
    [ credential_data |-> JsonbOf(credential_data),
      disabled        |-> FALSE,
      error_codes     |-> <<>>,
      last_success    |-> current_ts,
      user_email      |-> "",
      model_cooldowns |-> EmptyMap,
      rotation_order  |-> rotation_order,
      call_count      |-> 0 ]

\* Rows whose credential_data->>'refresh_token' equals the parameter.
PgDupRows(tbl, refresh_token) ==
    { g \in DOMAIN tbl :
        /\ "refresh_token" \in DOMAIN tbl[g].credential_data
        /\ JsonLoads(tbl[g].credential_data["refresh_token"]) = refresh_token }

\* Faulty variant of PgStoreCredential: the refresh_token lookup is skipped.
PgStoreCredentialNoDedup(tbl, filename, credential_data, current_ts) ==
    { [ tbl |-> IF filename \in DOMAIN tbl
                THEN [tbl EXCEPT ![filename].credential_data = JsonbOf(credential_data)]
                ELSE DictSet(tbl, filename,
                             NewRow(credential_data, NextRotationOrder(tbl), current_ts)),
        ok  |-> TRUE ] }

\* Faulty variant of PgStoreCredential: a re-store writes the row anew, with
\* the column defaults for its state.
PgStoreCredentialResetState(tbl, filename, credential_data, current_ts) ==
    LET refresh_token == DictGet(credential_data, "refresh_token", "")
        dups    == IF Truthy(refresh_token) THEN PgDupRows(tbl, refresh_token) ELSE {}
        written == DictSet(tbl, filename,
                           NewRow(credential_data,
                                  IF filename \in DOMAIN tbl
                                  THEN tbl[filename].rotation_order
                                  ELSE NextRotationOrder(tbl),
                                  current_ts))
    IN  { [tbl |-> tbl, ok |-> FALSE] : dup \in dups \ {filename} }
        \cup
        { [tbl |-> written, ok |-> TRUE] :
            dup \in (dups \cap {filename}) \cup (IF dups = {} THEN {NoFile} ELSE {}) }

\* store_credential: the possible outcomes [tbl, ok]. fetchrow returns any one
\* of the rows that hold the token.
PgStoreCredential(tbl, filename, credential_data, current_ts) ==
    LET refresh_token == DictGet(credential_data, "refresh_token", "")
        dups    == IF Truthy(refresh_token) THEN PgDupRows(tbl, refresh_token) ELSE {}
        written == IF filename \in DOMAIN tbl
                   THEN [tbl EXCEPT ![filename].credential_data = JsonbOf(credential_data)]
                   ELSE DictSet(tbl, filename,
                                NewRow(credential_data, NextRotationOrder(tbl), current_ts))
    IN  { [tbl |-> tbl, ok |-> FALSE] : dup \in dups \ {filename} }
        \cup
        { [tbl |-> written, ok |-> TRUE] :
            dup \in (dups \cap {filename}) \cup (IF dups = {} THEN {NoFile} ELSE {}) }

\* delete_credential: exact filename first, then every row LIKE '%' || filename.
PgDeleteCredential(tbl, filename) ==
    LET victims == IF filename \in DOMAIN tbl THEN {filename}
                   ELSE { g \in DOMAIN tbl : IsSuffix(filename, g) }
    IN  [ tbl |-> [g \in DOMAIN tbl \ victims |-> tbl[g]],
          ok  |-> victims # {} ]

\* get_credential: the possible results [found, file]; the LIKE fallback
\* returns any one matching row.
PgGetCredential(tbl, filename) ==
    LET hits == IF filename \in DOMAIN tbl THEN {filename}
                ELSE { g \in DOMAIN tbl : IsSuffix(filename, g) }
    IN  IF hits = {} THEN { [found |-> FALSE, data |-> EmptyMap] }
        ELSE { [found |-> TRUE, data |-> ParseJsonb(tbl[g].credential_data)] : g \in hits }

\* update_credential_state: only STATE_FIELDS are written; True when there is
\* nothing to write, otherwise whether a row was updated.
PgUpdateCredentialState(tbl, filename, state_updates) ==
    LET valid == DOMAIN state_updates \cap STATE_FIELDS
    IN  IF valid = {} THEN [tbl |-> tbl, ok |-> TRUE]
        ELSE IF filename \notin DOMAIN tbl THEN [tbl |-> tbl, ok |-> FALSE]
        ELSE [ tbl |-> [tbl EXCEPT ![filename] =
                          [k \in DOMAIN @ |-> IF k \in valid THEN state_updates[k] ELSE @[k]]],
               ok  |-> TRUE ]

\* set_model_cooldown: cooldown_until = -1 stands for None (remove the entry).
PgSetModelCooldown(tbl, filename, model_key, cooldown_until) ==
    IF filename \notin DOMAIN tbl THEN [tbl |-> tbl, ok |-> FALSE]
    ELSE [ tbl |-> [tbl EXCEPT ![filename].model_cooldowns =
                      IF cooldown_until = -1 THEN DictPop(@, model_key)
                      ELSE DictSet(@, model_key, cooldown_until)],
           ok  |-> TRUE ]

\* {k: v for k, v in model_cooldowns.items() if v > current_time}
ActiveCooldowns(model_cooldowns, current_time) ==
    [k \in {m \in DOMAIN model_cooldowns : model_cooldowns[m] > current_time} |->
        model_cooldowns[k]]

\* list_credentials: the filenames of the table (taken as a set)
PgListCredentials(tbl) == DOMAIN tbl

\* get_credential_state: the five state columns of the row as stored, or
\* the default state when there is no row ("None" stands for None)
PgGetCredentialState(tbl, filename, current_time) ==
    IF filename \in DOMAIN tbl
    THEN [ disabled        |-> tbl[filename].disabled,
           error_codes     |-> tbl[filename].error_codes,
           last_success    |-> IF tbl[filename].last_success = 0 THEN current_time
                               ELSE tbl[filename].last_success,
           user_email      |-> tbl[filename].user_email,
           model_cooldowns |-> tbl[filename].model_cooldowns ]
    ELSE [ disabled |-> FALSE, error_codes |-> <<>>, last_success |-> current_time,
           user_email |-> NoneKey, model_cooldowns |-> EmptyMap ]

\* get_all_credential_states: the state of every row, with the cooldown
\* entries whose deadline is later than current_time
PgGetAllCredentialStates(tbl, current_time) ==
    [ filename \in DOMAIN tbl |->
        [ PgGetCredentialState(tbl, filename, current_time)
            EXCEPT !.model_cooldowns = ActiveCooldowns(@, current_time) ] ]

\* ORDER BY rotation_order: the filenames of files, lowest rotation_order
\* first (rows of equal rotation_order in either order)
RECURSIVE ByRotationOrder(_, _)
ByRotationOrder(tbl, files) ==
    IF files = {} THEN <<>>
    ELSE LET first == CHOOSE f \in files :
                         \A g \in files : tbl[f].rotation_order <= tbl[g].rotation_order
         IN  <<first>> \o ByRotationOrder(tbl, files \ {first})

\* get_credentials_summary with offset 0 and no limit: the items
PgGetCredentialsSummary(tbl, status_filter, cooldown_filter, current_time) ==
    LET rows == { f \in DOMAIN tbl :
                    /\ status_filter = "enabled" => tbl[f].disabled = FALSE
                    /\ status_filter = "disabled" => tbl[f].disabled = TRUE }
        summary(f) ==
            [ filename        |-> f,
              disabled        |-> tbl[f].disabled,
              error_codes     |-> tbl[f].error_codes,
              last_success    |-> IF tbl[f].last_success = 0 THEN current_time
                                  ELSE tbl[f].last_success,
              user_email      |-> tbl[f].user_email,
              rotation_order  |-> tbl[f].rotation_order,
              model_cooldowns |-> ActiveCooldowns(tbl[f].model_cooldowns, current_time) ]
        kept == { f \in rows :
                    /\ cooldown_filter = "in_cooldown" =>
                          DOMAIN summary(f).model_cooldowns # {}
                    /\ cooldown_filter = "no_cooldown" =>
                          DOMAIN summary(f).model_cooldowns = {} }
        order == ByRotationOrder(tbl, kept)
    IN  [i \in 1..Len(order) |-> summary(order[i])]

\* The rows the model_key branch of selection may return: enabled, and with
\* no cooldown for model_key or one that current_time has reached.
PgSurvivors(tbl, model_key, current_time) ==
    { f \in DOMAIN tbl :
        /\ tbl[f].disabled = FALSE
        /\ \/ model_key \notin DOMAIN tbl[f].model_cooldowns
           \/ current_time >= tbl[f].model_cooldowns[model_key] }

\* Faulty variant of PgSelection: the WHERE disabled = FALSE clause is dropped.
PgSelectionAnyRow(tbl, model_key, current_time) ==
    IF DOMAIN tbl = {} THEN {NoFile} ELSE DOMAIN tbl

\* Faulty variant of PgSelection: the cooldown comparison is inverted.
PgSelectionCooldownInverted(tbl, model_key, current_time) ==
    LET pick == IF Truthy(model_key)
                THEN { f \in DOMAIN tbl :
                         /\ tbl[f].disabled = FALSE
                         /\ \/ model_key \notin DOMAIN tbl[f].model_cooldowns
                            \/ current_time < tbl[f].model_cooldowns[model_key] }
                ELSE { f \in DOMAIN tbl : tbl[f].disabled = FALSE }
    IN  IF pick = {} THEN {NoFile} ELSE pick

\* Faulty variant of PgSelection: the model_key branch gives up after the first row.
PgSelectionFirstRowOnly(tbl, model_key, current_time) ==
    LET enabled == { f \in DOMAIN tbl : tbl[f].disabled = FALSE }
    IN  IF enabled = {} THEN {NoFile}
        ELSE IF Truthy(model_key)
             THEN { IF f \in PgSurvivors(tbl, model_key, current_time) THEN f ELSE NoFile :
                      f \in enabled }
             ELSE enabled

\* get_next_available_credential: the filenames it may return (NoFile for
\* None). ORDER BY RANDOM() makes every survivor a possible first row.
PgSelection(tbl, model_key, current_time) ==
    LET pick == IF Truthy(model_key)
                THEN PgSurvivors(tbl, model_key, current_time)
                ELSE { f \in DOMAIN tbl : tbl[f].disabled = FALSE }
    IN  IF pick = {} THEN {NoFile} ELSE pick

-----------------------------------------------------------------------------
(* ValkeyManager (src/src/storage/valkey_manager.py)                       *)
(* A namespace is [hash, index]: hash maps the filenames whose key exists  *)
(* to their field -> JSON text mapping, index is the index set.            *)

\* json.dumps of a state value written by update_credential_state
JsonDumpsState(field, v) ==
    CASE field = "disabled"    -> IF v THEN "true" ELSE "false"
      [] field = "error_codes" -> IF v = <<>> THEN "[]" ELSE "[429]"
      [] OTHER                 -> "null"

\* HGETALL: the empty mapping when the key does not exist
HGetAll(hash, filename) == IF filename \in DOMAIN hash THEN hash[filename] ELSE EmptyMap

\* HSET key mapping: the fields are merged into the hash, which is created
\* when missing
HSet(hash, filename, mapping) ==
    LET old == HGetAll(hash, filename)
    IN  DictSet(hash, filename,
                [k \in DOMAIN old \cup DOMAIN mapping |->
                    IF k \in DOMAIN mapping THEN mapping[k] ELSE old[k]])

\* The indexed files, other than filename, whose stored refresh_token
\* decodes to the given one (valkey_manager.py:135-150).
VkDupFiles(db, filename, refresh_token) ==
    { g \in db.index \ {filename} :
        LET existing_data  == HGetAll(db.hash, g)
            existing_token == DictGet(existing_data, "refresh_token", "")
        IN  /\ DOMAIN existing_data # {}
            /\ (IF existing_token # "" THEN JsonLoads(existing_token) ELSE existing_token)
                 = refresh_token }

\* store_credential. HSET with an empty mapping raises in the client library,
\* which the except clause turns into False.
VkStoreCredential(db, filename, creds_data) ==
    LET refresh_token == DictGet(creds_data, "refresh_token", "")
    IN  IF Truthy(refresh_token) /\ VkDupFiles(db, filename, refresh_token) # {}
        THEN [db |-> db, ok |-> FALSE]
        ELSE IF DOMAIN creds_data = {} THEN [db |-> db, ok |-> FALSE]
        ELSE [ db |-> [ hash  |-> HSet(db.hash, filename, JsonbOf(creds_data)),
                        index |-> db.index \cup {filename} ],
               ok |-> TRUE ]

\* delete_credential: DEL key, SREM index; always True
VkDeleteCredential(db, filename) ==
    [ db |-> [ hash  |-> [g \in DOMAIN db.hash \ {filename} |-> db.hash[g]],
               index |-> db.index \ {filename} ],
      ok |-> TRUE ]

\* get_credential: None when HGETALL is empty, else every field decoded
VkGetCredential(db, filename) ==
    LET data == HGetAll(db.hash, filename)
    IN  IF DOMAIN data = {} THEN [found |-> FALSE, data |-> EmptyMap]
        ELSE [found |-> TRUE, data |-> [k \in DOMAIN data |-> JsonLoads(data[k])]]

\* update_credential_state: the STATE_FIELDS present are HSET on the key,
\* whether or not the key existed; always True
VkUpdateCredentialState(db, filename, state_data) ==
    LET fields  == DOMAIN state_data \cap STATE_FIELDS
        updates == [k \in fields |-> JsonDumpsState(k, state_data[k])]
    IN  [ db |-> IF fields = {} THEN db
                 ELSE [db EXCEPT !.hash = HSet(db.hash, filename, updates)],
          ok |-> TRUE ]

\* list_credentials: the members of the index set
VkListCredentials(db) == db.index

\* get_credential_state: {} when get_credential returns nothing, else the
\* STATE_FIELDS the hash holds
VkGetCredentialState(db, filename) ==
    LET cred == VkGetCredential(db, filename)
    IN  IF ~cred.found THEN EmptyMap
        ELSE [field \in DOMAIN cred.data \cap STATE_FIELDS |-> cred.data[field]]

-----------------------------------------------------------------------------
(* The storage adapter as a state machine. Every call is one action; ret   *)
(* records the call and what it returned.                                  *)

\* cooldown_until arguments; -1 stands for None
CooldownArgs == (1..MaxCooldown) \cup {-1}

VkDb(ns) == [hash |-> vkHash[ns], index |-> vkIndex[ns]]

\* A store the adapter has already been used on: a.json-like "a" holding
\* token t1 and "ba" holding token t2, both stored at time 0.
PgSeeded ==
    LET one == (CHOOSE o \in PgStoreCredential(EmptyMap, <<"a">>,
                                   [refresh_token |-> "t1"], 0) : TRUE).tbl
    IN  (CHOOSE o \in PgStoreCredential(one, <<"b", "a">>,
                                   [refresh_token |-> "t2"], 0) : TRUE).tbl

VkSeeded ==
    LET one == VkStoreCredential([hash |-> EmptyMap, index |-> {}], <<"a">>,
                                 [refresh_token |-> "t1"]).db
    IN  VkStoreCredential(one, <<"b", "a">>, [refresh_token |-> "t2"]).db

\* time.time() advances between calls
Tick ==
    /\ nops < MaxOps
    /\ UNCHANGED <<sseVars, cfgVars, chatVars, taskVars>>
    /\ nops' = nops + 1
    /\ now' = now + 1
    /\ ret' = [op |-> "tick"]
    /\ UNCHANGED <<backend, pg, vkHash, vkIndex>>

\* A store_credential on which the backend raises: the except clause returns
\* False and nothing is written.
StoreFailed(is_antigravity, filename, credential_data) ==
    /\ nops < MaxOps
    /\ UNCHANGED <<sseVars, cfgVars, chatVars, taskVars>>
    /\ nops' = nops + 1
    /\ ret' = [op |-> "store", ns |-> is_antigravity, f |-> filename,
               c |-> credential_data, ok |-> FALSE, err |-> TRUE]
    /\ UNCHANGED <<backend, pg, vkHash, vkIndex, now>>

StoreCredential(is_antigravity, filename, credential_data) ==
    /\ nops < MaxOps
    /\ UNCHANGED <<sseVars, cfgVars, chatVars, taskVars>>
    /\ nops' = nops + 1
    /\ \/ /\ backend = "pg"
          /\ \E o \in PgStoreCredential(pg[is_antigravity], filename, credential_data, now) :
                /\ pg' = [pg EXCEPT ![is_antigravity] = o.tbl]
                /\ ret' = [op |-> "store", ns |-> is_antigravity, f |-> filename,
                           c |-> credential_data, ok |-> o.ok, err |-> FALSE]
          /\ UNCHANGED <<vkHash, vkIndex>>
       \/ /\ backend = "vk"
          /\ LET o == VkStoreCredential(VkDb(is_antigravity), filename, credential_data)
             IN  /\ vkHash' = [vkHash EXCEPT ![is_antigravity] = o.db.hash]
                 /\ vkIndex' = [vkIndex EXCEPT ![is_antigravity] = o.db.index]
                 /\ ret' = [op |-> "store", ns |-> is_antigravity, f |-> filename,
                            c |-> credential_data, ok |-> o.ok, err |-> FALSE]
          /\ UNCHANGED pg
    /\ UNCHANGED <<backend, now>>

DeleteCredential(is_antigravity, filename) ==
    /\ nops < MaxOps
    /\ UNCHANGED <<sseVars, cfgVars, chatVars, taskVars>>
    /\ nops' = nops + 1
    /\ \/ /\ backend = "pg"
          /\ LET o == PgDeleteCredential(pg[is_antigravity], filename)
             IN  /\ pg' = [pg EXCEPT ![is_antigravity] = o.tbl]
                 /\ ret' = [op |-> "delete", ns |-> is_antigravity, f |-> filename,
                            ok |-> o.ok, err |-> FALSE]
          /\ UNCHANGED <<vkHash, vkIndex>>
       \/ /\ backend = "vk"
          /\ LET o == VkDeleteCredential(VkDb(is_antigravity), filename)
             IN  /\ vkHash' = [vkHash EXCEPT ![is_antigravity] = o.db.hash]
                 /\ vkIndex' = [vkIndex EXCEPT ![is_antigravity] = o.db.index]
                 /\ ret' = [op |-> "delete", ns |-> is_antigravity, f |-> filename,
                            ok |-> o.ok, err |-> FALSE]
          /\ UNCHANGED pg
    /\ UNCHANGED <<backend, now>>

GetCredential(is_antigravity, filename) ==
    /\ nops < MaxOps
    /\ UNCHANGED <<sseVars, cfgVars, chatVars, taskVars>>
    /\ nops' = nops + 1
    /\ \/ /\ backend = "pg"
          /\ \E o \in PgGetCredential(pg[is_antigravity], filename) :
                ret' = [op |-> "get", ns |-> is_antigravity, f |-> filename,
                        found |-> o.found, data |-> o.data, err |-> FALSE]
       \/ /\ backend = "vk"
          /\ LET o == VkGetCredential(VkDb(is_antigravity), filename)
             IN  ret' = [op |-> "get", ns |-> is_antigravity, f |-> filename,
                         found |-> o.found, data |-> o.data, err |-> FALSE]
    /\ UNCHANGED <<backend, pg, vkHash, vkIndex, now>>

UpdateCredentialState(is_antigravity, filename, state_updates) ==
    /\ nops < MaxOps
    /\ UNCHANGED <<sseVars, cfgVars, chatVars, taskVars>>
    /\ nops' = nops + 1
    /\ \/ /\ backend = "pg"
          /\ LET o == PgUpdateCredentialState(pg[is_antigravity], filename, state_updates)
             IN  /\ pg' = [pg EXCEPT ![is_antigravity] = o.tbl]
                 /\ ret' = [op |-> "update_state", ns |-> is_antigravity, f |-> filename,
                            ok |-> o.ok, err |-> FALSE]
          /\ UNCHANGED <<vkHash, vkIndex>>
       \/ /\ backend = "vk"
          /\ LET o == VkUpdateCredentialState(VkDb(is_antigravity), filename, state_updates)
             IN  /\ vkHash' = [vkHash EXCEPT ![is_antigravity] = o.db.hash]
                 /\ vkIndex' = [vkIndex EXCEPT ![is_antigravity] = o.db.index]
                 /\ ret' = [op |-> "update_state", ns |-> is_antigravity, f |-> filename,
                            ok |-> o.ok, err |-> FALSE]
          /\ UNCHANGED pg
    /\ UNCHANGED <<backend, now>>

\* get_credential_state on the relational backend
GetCredentialState(is_antigravity, filename) ==
    /\ nops < MaxOps
    /\ UNCHANGED <<sseVars, cfgVars, chatVars, taskVars>>
    /\ nops' = nops + 1
    /\ backend = "pg"
    /\ ret' = [op |-> "get_state", ns |-> is_antigravity, f |-> filename,
               states |-> << PgGetCredentialState(pg[is_antigravity], filename, now) >>,
               cooldown_filter |-> NoneKey, err |-> FALSE]
    /\ UNCHANGED <<backend, pg, vkHash, vkIndex, now>>

\* get_all_credential_states on the relational backend
GetAllCredentialStates(is_antigravity) ==
    /\ nops < MaxOps
    /\ UNCHANGED <<sseVars, cfgVars, chatVars, taskVars>>
    /\ nops' = nops + 1
    /\ backend = "pg"
    /\ LET states == PgGetAllCredentialStates(pg[is_antigravity], now)
           files  == ByRotationOrder(pg[is_antigravity], DOMAIN states)
       IN  ret' = [op |-> "get_all_states", ns |-> is_antigravity, f |-> files,
                   states |-> [i \in 1..Len(files) |-> states[files[i]]],
                   cooldown_filter |-> NoneKey, err |-> FALSE]
    /\ UNCHANGED <<backend, pg, vkHash, vkIndex, now>>

\* get_credentials_summary on the relational backend
GetCredentialsSummary(is_antigravity, status_filter, cooldown_filter) ==
    /\ nops < MaxOps
    /\ UNCHANGED <<sseVars, cfgVars, chatVars, taskVars>>
    /\ nops' = nops + 1
    /\ backend = "pg"
    /\ LET items == PgGetCredentialsSummary(pg[is_antigravity], status_filter,
                                            cooldown_filter, now)
       IN  ret' = [op |-> "summary", ns |-> is_antigravity,
                   f |-> [i \in 1..Len(items) |-> items[i].filename],
                   states |-> items, cooldown_filter |-> cooldown_filter, err |-> FALSE]
    /\ UNCHANGED <<backend, pg, vkHash, vkIndex, now>>

\* set_model_cooldown exists on the relational backend only
SetModelCooldown(is_antigravity, filename, model_key, cooldown_until) ==
    /\ nops < MaxOps
    /\ UNCHANGED <<sseVars, cfgVars, chatVars, taskVars>>
    /\ nops' = nops + 1
    /\ backend = "pg"
    /\ LET o == PgSetModelCooldown(pg[is_antigravity], filename, model_key, cooldown_until)
       IN  /\ pg' = [pg EXCEPT ![is_antigravity] = o.tbl]
           /\ ret' = [op |-> "set_cooldown", ns |-> is_antigravity, f |-> filename,
                      m |-> model_key, ok |-> o.ok, err |-> FALSE]
    /\ UNCHANGED <<backend, vkHash, vkIndex, now>>

\* get_next_available_credential exists on the relational backend only
GetNextAvailableCredential(is_antigravity, model_key) ==
    /\ nops < MaxOps
    /\ UNCHANGED <<sseVars, cfgVars, chatVars, taskVars>>
    /\ nops' = nops + 1
    /\ backend = "pg"
    /\ \E file \in PgSelection(pg[is_antigravity], model_key, now) :
          ret' = [op |-> "select", ns |-> is_antigravity, m |-> model_key,
                  file |-> file, err |-> FALSE,
                  pool |-> PgSelection(pg[is_antigravity], model_key, now)]
    /\ UNCHANGED <<backend, pg, vkHash, vkIndex, now>>

\* get_next_available_credential on which the backend raises: None
SelectionFailed(is_antigravity, model_key) ==
    /\ nops < MaxOps
    /\ UNCHANGED <<sseVars, cfgVars, chatVars, taskVars>>
    /\ nops' = nops + 1
    /\ backend = "pg"
    /\ ret' = [op |-> "select", ns |-> is_antigravity, m |-> model_key,
               file |-> NoFile, err |-> TRUE, pool |-> {NoFile}]
    /\ UNCHANGED <<backend, pg, vkHash, vkIndex, now>>

vars == <<storeVars, sseVars, cfgVars, chatVars, taskVars>>

-----------------------------------------------------------------------------
(* SpecStore: store, delete, get and update_credential_state calls, one at *)
(* a time, on the normal namespace of either backend.                      *)

StoreNs == {FALSE}

StoreBundles ==
    { c \in Bundles : "access_token" \in DOMAIN c /\ "refresh_token" \in DOMAIN c
                        => c["refresh_token"] = "t1" }

StoreInit ==
    /\ backend \in {"pg", "vk"}
    /\ \E seeded \in BOOLEAN :
          /\ pg = [ns \in Namespaces |->
                     IF seeded /\ backend = "pg" /\ ns \in StoreNs THEN PgSeeded ELSE EmptyMap]
          /\ vkHash = [ns \in Namespaces |->
                     IF seeded /\ backend = "vk" /\ ns \in StoreNs THEN VkSeeded.hash
                     ELSE EmptyMap]
          /\ vkIndex = [ns \in Namespaces |->
                     IF seeded /\ backend = "vk" /\ ns \in StoreNs THEN VkSeeded.index
                     ELSE {}]
    /\ now = 0
    /\ nops = 0
    /\ ret = [op |-> "init"]
    /\ SseIdle
    /\ ChatIdle
    /\ TasksIdle
    /\ CfgIdle

StoreNext ==
    \/ Tick
    \/ \E ns \in StoreNs, f \in Filenames, c \in StoreBundles : StoreCredential(ns, f, c)
    \/ \E ns \in StoreNs, f \in Filenames, c \in StoreBundles : StoreFailed(ns, f, c)
    \/ \E ns \in StoreNs, f \in Filenames : DeleteCredential(ns, f)
    \/ \E ns \in StoreNs, f \in Filenames : GetCredential(ns, f)
    \/ \E ns \in StoreNs, f \in Filenames, u \in StateUpdates :
          UpdateCredentialState(ns, f, u)

SpecStore == StoreInit /\ [][StoreNext]_vars

-----------------------------------------------------------------------------
(* SpecSelect: credential selection on the relational backend, with        *)
(* disabling, per-model cooldowns and the passage of time.                 *)

SelectInit ==
    /\ backend = "pg"
    /\ \E seeded \in BOOLEAN :
          pg = [ns \in Namespaces |-> IF seeded /\ ns \in StoreNs THEN PgSeeded ELSE EmptyMap]
    /\ vkHash = [ns \in Namespaces |-> EmptyMap]
    /\ vkIndex = [ns \in Namespaces |-> {}]
    /\ now = 0
    /\ nops = 0
    /\ ret = [op |-> "init"]
    /\ SseIdle
    /\ ChatIdle
    /\ TasksIdle
    /\ CfgIdle

SelectNext ==
    \/ Tick
    \/ \E ns \in StoreNs, f \in Filenames, t \in {"t1", "t2"} :
          StoreCredential(ns, f, [refresh_token |-> t])
    \/ \E ns \in StoreNs, f \in Filenames, d \in BOOLEAN :
          UpdateCredentialState(ns, f, [disabled |-> d])
    \/ \E ns \in StoreNs, f \in Filenames, m \in ModelKeys, t \in CooldownArgs :
          SetModelCooldown(ns, f, m, t)
    \/ \E ns \in StoreNs, m \in ModelKeys \cup {NoneKey} :
          GetNextAvailableCredential(ns, m)
    \/ \E ns \in StoreNs, m \in ModelKeys \cup {NoneKey} : SelectionFailed(ns, m)
    \/ \E ns \in StoreNs, f \in Filenames : GetCredentialState(ns, f)
    \/ \E ns \in StoreNs : GetAllCredentialStates(ns)
    \/ \E ns \in StoreNs, cooldown_filter \in {NoneKey, "in_cooldown", "no_cooldown"} :
          GetCredentialsSummary(ns, "all", cooldown_filter)

SpecSelect == SelectInit /\ [][SelectNext]_vars

-----------------------------------------------------------------------------
(* SpecTasks: two storage calls made by concurrent requests. Each call is  *)
(* a coroutine on its own pooled connection; the event loop may switch to  *)
(* the other call at every await, so each awaited statement is one step.   *)

Tasks == {1, 2}

\* A call that has not started: what it was called with and its locals
Call(op, filename, credential_data, model_key, cooldown_until) ==
    [ op |-> op, f |-> filename, c |-> credential_data, m |-> model_key,
      t |-> cooldown_until, pc |-> "start", model_cooldowns |-> EmptyMap,
      existing |-> FALSE, max_order |-> 0, ok |-> "pending" ]

\* The calls concurrent requests make
TaskCalls ==
    { Call("set_model_cooldown", f, EmptyMap, m, t) :
        f \in Filenames, m \in {"m1", "m2"}, t \in {1, -1} }
    \cup { Call("store_credential", f, [refresh_token |-> t], "", 0) :
             f \in Filenames, t \in {"t1", "t2"} }
    \cup { Call("delete_credential", f, EmptyMap, "", 0) : f \in Filenames }

\* The namespace the calls work on
TaskTable == pg[FALSE]

Returned(i, ok) == [tasks EXCEPT ![i].pc = "done", ![i].ok = ok]

pgTaskFrame == <<backend, vkHash, vkIndex, now, nops, ret, sseVars, cfgVars, chatVars>>
vkTaskFrame == <<backend, pg, now, nops, ret, sseVars, cfgVars, chatVars>>

\* set_model_cooldown: SELECT model_cooldowns ... WHERE filename = $1
PgCooldownRead(i) ==
    /\ backend = "pg"
    /\ tasks[i].op = "set_model_cooldown" /\ tasks[i].pc = "start"
    /\ tasks' = IF tasks[i].f \notin DOMAIN TaskTable THEN Returned(i, "False")
                ELSE [tasks EXCEPT ![i].pc = "read",
                                   ![i].model_cooldowns =
                                       TaskTable[tasks[i].f].model_cooldowns]
    /\ UNCHANGED <<pg, pgTaskFrame>>

\* set_model_cooldown: the entry is set or removed in the mapping that was
\* read, and UPDATE ... SET model_cooldowns = $1 writes the whole mapping
PgCooldownWrite(i) ==
    /\ backend = "pg"
    /\ tasks[i].op = "set_model_cooldown" /\ tasks[i].pc = "read"
    /\ LET model_cooldowns ==
               IF tasks[i].t = -1 THEN DictPop(tasks[i].model_cooldowns, tasks[i].m)
               ELSE DictSet(tasks[i].model_cooldowns, tasks[i].m, tasks[i].t)
       IN  pg' = IF tasks[i].f \in DOMAIN TaskTable
                 THEN [pg EXCEPT ![FALSE][tasks[i].f].model_cooldowns = model_cooldowns]
                 ELSE pg
    /\ tasks' = Returned(i, "True")
    /\ UNCHANGED pgTaskFrame

\* store_credential: the refresh_token lookup; fetchrow returns any one of
\* the rows that hold the token
PgStoreCheckDup(i) ==
    /\ backend = "pg"
    /\ tasks[i].op = "store_credential" /\ tasks[i].pc = "start"
    /\ LET refresh_token == DictGet(tasks[i].c, "refresh_token", "")
           dups == IF Truthy(refresh_token) THEN PgDupRows(TaskTable, refresh_token)
                   ELSE {}
       IN  \/ /\ dups \ {tasks[i].f} # {}
              /\ tasks' = Returned(i, "False")
           \/ /\ dups = {} \/ tasks[i].f \in dups
              /\ tasks' = [tasks EXCEPT ![i].pc = "checked"]
    /\ UNCHANGED <<pg, pgTaskFrame>>

\* store_credential: SELECT id ... WHERE filename = $1
PgStoreCheckExisting(i) ==
    /\ backend = "pg"
    /\ tasks[i].op = "store_credential" /\ tasks[i].pc = "checked"
    /\ tasks' = [tasks EXCEPT ![i].pc = "existing",
                              ![i].existing = (tasks[i].f \in DOMAIN TaskTable)]
    /\ UNCHANGED <<pg, pgTaskFrame>>

\* store_credential: UPDATE ... SET credential_data = $1 WHERE filename = $3
PgStoreUpdate(i) ==
    /\ backend = "pg"
    /\ tasks[i].op = "store_credential" /\ tasks[i].pc = "existing"
    /\ tasks[i].existing
    /\ pg' = IF tasks[i].f \in DOMAIN TaskTable
             THEN [pg EXCEPT ![FALSE][tasks[i].f].credential_data = JsonbOf(tasks[i].c)]
             ELSE pg
    /\ tasks' = Returned(i, "True")
    /\ UNCHANGED pgTaskFrame

\* store_credential: SELECT COALESCE(MAX(rotation_order), -1) + 1
PgStoreMaxOrder(i) ==
    /\ backend = "pg"
    /\ tasks[i].op = "store_credential" /\ tasks[i].pc = "existing"
    /\ ~tasks[i].existing
    /\ tasks' = [tasks EXCEPT ![i].pc = "max_order",
                              ![i].max_order = NextRotationOrder(TaskTable)]
    /\ UNCHANGED <<pg, pgTaskFrame>>

\* store_credential: INSERT; filename is UNIQUE, so the statement raises
\* when the row has appeared meanwhile and the except clause returns False
PgStoreInsert(i) ==
    /\ backend = "pg"
    /\ tasks[i].op = "store_credential" /\ tasks[i].pc = "max_order"
    /\ IF tasks[i].f \in DOMAIN TaskTable
       THEN /\ tasks' = Returned(i, "False")
            /\ UNCHANGED pg
       ELSE /\ pg' = [pg EXCEPT ![FALSE] =
                        DictSet(@, tasks[i].f,
                                NewRow(tasks[i].c, tasks[i].max_order, now))]
            /\ tasks' = Returned(i, "True")
    /\ UNCHANGED pgTaskFrame

\* delete_credential: DELETE ... WHERE filename = $1
PgDeleteExact(i) ==
    /\ backend = "pg"
    /\ tasks[i].op = "delete_credential" /\ tasks[i].pc = "start"
    /\ IF tasks[i].f \in DOMAIN TaskTable
       THEN /\ pg' = [pg EXCEPT ![FALSE] = [g \in DOMAIN @ \ {tasks[i].f} |-> @[g]]]
            /\ tasks' = Returned(i, "True")
       ELSE /\ tasks' = [tasks EXCEPT ![i].pc = "like"]
            /\ UNCHANGED pg
    /\ UNCHANGED pgTaskFrame

\* delete_credential: DELETE ... WHERE filename LIKE '%' || $1
PgDeleteLike(i) ==
    /\ backend = "pg"
    /\ tasks[i].op = "delete_credential" /\ tasks[i].pc = "like"
    /\ LET victims == { g \in DOMAIN TaskTable : IsSuffix(tasks[i].f, g) }
       IN  /\ pg' = [pg EXCEPT ![FALSE] = [g \in DOMAIN @ \ victims |-> @[g]]]
           /\ tasks' = Returned(i, IF victims # {} THEN "True" ELSE "False")
    /\ UNCHANGED pgTaskFrame

\* ValkeyManager.store_credential: SMEMBERS and the HGETALL of every other
\* indexed file
VkStoreCheckDup(i) ==
    /\ backend = "vk"
    /\ tasks[i].op = "store_credential" /\ tasks[i].pc = "start"
    /\ LET refresh_token == DictGet(tasks[i].c, "refresh_token", "")
       IN  tasks' = IF /\ Truthy(refresh_token)
                       /\ VkDupFiles(VkDb(FALSE), tasks[i].f, refresh_token) # {}
                    THEN Returned(i, "False")
                    ELSE [tasks EXCEPT ![i].pc = "checked"]
    /\ UNCHANGED <<vkHash, vkIndex, vkTaskFrame>>

\* ValkeyManager.store_credential: the pipeline of HSET and SADD
VkStoreWrite(i) ==
    /\ backend = "vk"
    /\ tasks[i].op = "store_credential" /\ tasks[i].pc = "checked"
    /\ vkHash' = [vkHash EXCEPT ![FALSE] = HSet(@, tasks[i].f, JsonbOf(tasks[i].c))]
    /\ vkIndex' = [vkIndex EXCEPT ![FALSE] = @ \cup {tasks[i].f}]
    /\ tasks' = Returned(i, "True")
    /\ UNCHANGED vkTaskFrame

\* ValkeyManager.delete_credential: the pipeline of DEL and SREM
VkDelete(i) ==
    /\ backend = "vk"
    /\ tasks[i].op = "delete_credential" /\ tasks[i].pc = "start"
    /\ LET o == VkDeleteCredential(VkDb(FALSE), tasks[i].f)
       IN  /\ vkHash' = [vkHash EXCEPT ![FALSE] = o.db.hash]
           /\ vkIndex' = [vkIndex EXCEPT ![FALSE] = o.db.index]
    /\ tasks' = Returned(i, "True")
    /\ UNCHANGED vkTaskFrame

TasksInit ==
    /\ backend \in {"pg", "vk"}
    /\ \E seeded \in BOOLEAN :
          /\ pg = [ns \in Namespaces |->
                     IF seeded /\ backend = "pg" /\ ns \in StoreNs THEN PgSeeded ELSE EmptyMap]
          /\ vkHash = [ns \in Namespaces |->
                     IF seeded /\ backend = "vk" /\ ns \in StoreNs THEN VkSeeded.hash
                     ELSE EmptyMap]
          /\ vkIndex = [ns \in Namespaces |->
                     IF seeded /\ backend = "vk" /\ ns \in StoreNs THEN VkSeeded.index
                     ELSE {}]
    /\ now = 0
    /\ nops = 0
    /\ ret = [op |-> "init"]
    /\ SseIdle
    /\ ChatIdle
    /\ CfgIdle
    /\ tasks \in [Tasks -> TaskCalls]
    /\ backend = "vk" => \A i \in Tasks : tasks[i].op # "set_model_cooldown"

TasksNext ==
    \/ \E i \in Tasks : PgCooldownRead(i)
    \/ \E i \in Tasks : PgCooldownWrite(i)
    \/ \E i \in Tasks : PgStoreCheckDup(i)
    \/ \E i \in Tasks : PgStoreCheckExisting(i)
    \/ \E i \in Tasks : PgStoreUpdate(i)
    \/ \E i \in Tasks : PgStoreMaxOrder(i)
    \/ \E i \in Tasks : PgStoreInsert(i)
    \/ \E i \in Tasks : PgDeleteExact(i)
    \/ \E i \in Tasks : PgDeleteLike(i)
    \/ \E i \in Tasks : VkStoreCheckDup(i)
    \/ \E i \in Tasks : VkStoreWrite(i)
    \/ \E i \in Tasks : VkDelete(i)

SpecTasks == TasksInit /\ [][TasksNext]_vars

-----------------------------------------------------------------------------
(* SpecBoth: the same calls, one at a time, made on a PostgresManager and  *)
(* on a ValkeyManager that both start empty; ret holds what each returned. *)

bothFrame == <<backend, now, sseVars, cfgVars, chatVars, taskVars>>

BothStoreCredential(filename, credential_data) ==
    /\ nops < MaxOps
    /\ nops' = nops + 1
    /\ LET v == VkStoreCredential(VkDb(FALSE), filename, credential_data)
       IN  \E p \in PgStoreCredential(pg[FALSE], filename, credential_data, now) :
              /\ pg' = [pg EXCEPT ![FALSE] = p.tbl]
              /\ vkHash' = [vkHash EXCEPT ![FALSE] = v.db.hash]
              /\ vkIndex' = [vkIndex EXCEPT ![FALSE] = v.db.index]
              /\ ret' = [op |-> "store", f |-> filename, pg |-> p.ok, vk |-> v.ok]
    /\ UNCHANGED bothFrame

BothGetCredential(filename) ==
    /\ nops < MaxOps
    /\ nops' = nops + 1
    /\ \E p \in PgGetCredential(pg[FALSE], filename) :
          ret' = [op |-> "get", f |-> filename, pg |-> p,
                  vk |-> VkGetCredential(VkDb(FALSE), filename)]
    /\ UNCHANGED <<pg, vkHash, vkIndex, bothFrame>>

BothDeleteCredential(filename) ==
    /\ nops < MaxOps
    /\ nops' = nops + 1
    /\ LET p == PgDeleteCredential(pg[FALSE], filename)
           v == VkDeleteCredential(VkDb(FALSE), filename)
       IN  /\ pg' = [pg EXCEPT ![FALSE] = p.tbl]
           /\ vkHash' = [vkHash EXCEPT ![FALSE] = v.db.hash]
           /\ vkIndex' = [vkIndex EXCEPT ![FALSE] = v.db.index]
           /\ ret' = [op |-> "delete", f |-> filename, pg |-> p.ok, vk |-> v.ok]
    /\ UNCHANGED bothFrame

BothListCredentials ==
    /\ nops < MaxOps
    /\ nops' = nops + 1
    /\ ret' = [op |-> "list", f |-> NoFile, pg |-> PgListCredentials(pg[FALSE]),
               vk |-> VkListCredentials(VkDb(FALSE))]
    /\ UNCHANGED <<pg, vkHash, vkIndex, bothFrame>>

BothUpdateCredentialState(filename, state_updates) ==
    /\ nops < MaxOps
    /\ nops' = nops + 1
    /\ LET p == PgUpdateCredentialState(pg[FALSE], filename, state_updates)
           v == VkUpdateCredentialState(VkDb(FALSE), filename, state_updates)
       IN  /\ pg' = [pg EXCEPT ![FALSE] = p.tbl]
           /\ vkHash' = [vkHash EXCEPT ![FALSE] = v.db.hash]
           /\ vkIndex' = [vkIndex EXCEPT ![FALSE] = v.db.index]
           /\ ret' = [op |-> "update_state", f |-> filename, pg |-> p.ok, vk |-> v.ok]
    /\ UNCHANGED bothFrame

BothGetCredentialState(filename) ==
    /\ nops < MaxOps
    /\ nops' = nops + 1
    /\ ret' = [op |-> "get_state", f |-> filename,
               pg |-> PgGetCredentialState(pg[FALSE], filename, now),
               vk |-> VkGetCredentialState(VkDb(FALSE), filename)]
    /\ UNCHANGED <<pg, vkHash, vkIndex, bothFrame>>

BothInit ==
    /\ backend = "both"
    /\ pg = [ns \in Namespaces |-> EmptyMap]
    /\ vkHash = [ns \in Namespaces |-> EmptyMap]
    /\ vkIndex = [ns \in Namespaces |-> {}]
    /\ now = 0
    /\ nops = 0
    /\ ret = [op |-> "init"]
    /\ SseIdle
    /\ ChatIdle
    /\ CfgIdle
    /\ TasksIdle

BothNext ==
    \/ \E f \in Filenames, c \in StoreBundles : BothStoreCredential(f, c)
    \/ \E f \in Filenames : BothGetCredential(f)
    \/ \E f \in Filenames : BothDeleteCredential(f)
    \/ BothListCredentials
    \/ \E f \in Filenames, u \in StateUpdates : BothUpdateCredentialState(f, u)
    \/ \E f \in Filenames : BothGetCredentialState(f)

SpecBoth == BothInit /\ [][BothNext]_vars

-----------------------------------------------------------------------------
(* Properties of the storage adapter                                       *)

\* The filenames that have a stored record in a namespace
Records(ns) == IF backend = "pg" THEN DOMAIN pg[ns] ELSE DOMAIN vkHash[ns]

\* The refresh_token a stored record holds ("" when it has none)
StoredToken(ns, f) ==
    IF backend = "pg"
    THEN IF "refresh_token" \in DOMAIN pg[ns][f].credential_data
         THEN JsonLoads(pg[ns][f].credential_data["refresh_token"]) ELSE ""
    ELSE IF "refresh_token" \in DOMAIN vkHash[ns][f]
         THEN JsonLoads(vkHash[ns][f]["refresh_token"]) ELSE ""

TokenUnique ==
    \A ns \in Namespaces : \A f \in Records(ns), g \in Records(ns) :
        (f # g /\ StoredToken(ns, f) # "") => StoredToken(ns, f) # StoredToken(ns, g)

\* A store_credential step made while another filename holds the token
\* returns False and writes nothing.
DuplicateStoreRejected ==
    (/\ nops' = nops + 1
     /\ ret'.op = "store"
     /\ DictGet(ret'.c, "refresh_token", "") # ""
     /\ \E g \in Records(ret'.ns) \ {ret'.f} :
           StoredToken(ret'.ns, g) = DictGet(ret'.c, "refresh_token", ""))
    => (/\ ret'.ok = FALSE
        /\ pg' = pg /\ vkHash' = vkHash /\ vkIndex' = vkIndex)

\* C1: after any sequence of store_credential and delete_credential calls made
\* one at a time, no two stored records of a namespace hold the same non-empty
\* refresh_token, and a store_credential(f, c) made while a record with a
\* different filename holds c.refresh_token returns False and leaves every
\* stored record unchanged.
C1_DedupByRefreshToken == []TokenUnique /\ [][DuplicateStoreRejected]_vars

\* C1 witness: a store was just refused because another filename holds its token.
C1_Witness ==
    /\ ret.op = "store" /\ ret.err = FALSE /\ ret.ok = FALSE
    /\ DictGet(ret.c, "refresh_token", "") # ""
    /\ \E g \in Records(ret.ns) \ {ret.f} :
          StoredToken(ret.ns, g) = DictGet(ret.c, "refresh_token", "")
    /\ ret.f \in Records(ret.ns)

\* C2: for every model key (None included) selection never returns a record
\* whose disabled flag is true.
C2_DisabledNeverSelected ==
    (ret.op = "select" /\ ret.file # NoFile)
    => (ret.file \in DOMAIN pg[ret.ns] /\ pg[ret.ns][ret.file].disabled = FALSE)

\* C2 witness: selection returned a record while a disabled one was stored.
C2_Witness ==
    /\ ret.op = "select" /\ ret.file # NoFile
    /\ \E g \in DOMAIN pg[ret.ns] : pg[ret.ns][g].disabled = TRUE

\* model_cooldowns[m] of record f is a timestamp later than the current time
CoolingDown(ns, f, m) ==
    /\ m \in DOMAIN pg[ns][f].model_cooldowns
    /\ pg[ns][f].model_cooldowns[m] > now

\* C3 as stated: for every credential c and model key m, while
\* model_cooldowns[m] of c is later than the current time, selection called
\* with model key m never returns c.
C3_CooldownHonoredAnyKey ==
    (ret.op = "select" /\ ret.m # NoneKey /\ ret.file # NoFile)
    => ~CoolingDown(ret.ns, ret.file, ret.m)

\* C3 amended: the same for every non-empty model key m; the empty string is
\* treated as no model key and its cooldown entry is not consulted.
C3_CooldownHonored ==
    (ret.op = "select" /\ ret.m # NoneKey /\ ret.m # "" /\ ret.file # NoFile)
    => ~CoolingDown(ret.ns, ret.file, ret.m)

\* C3 witness: selection for m returned a record while another enabled
\* record was cooling down for m.
C3_Witness ==
    /\ ret.op = "select" /\ ret.m # NoneKey /\ ret.m # "" /\ ret.file # NoFile
    /\ \E g \in DOMAIN pg[ret.ns] :
          pg[ret.ns][g].disabled = FALSE /\ CoolingDown(ret.ns, g, ret.m)

\* A record is eligible for m iff it is enabled and has no cooldown for m
\* whose deadline is still in the future.
Eligible(ns, m) ==
    { f \in DOMAIN pg[ns] : pg[ns][f].disabled = FALSE /\ ~CoolingDown(ns, f, m) }

\* C4: absent a backend error, selection for m returns None only when no
\* record is eligible, and every eligible record is one that selection can
\* return (ret.pool is the set of rows the randomly ordered query can yield
\* first), so a record cooled down for other models only, or whose cooldown
\* for m has expired, can be returned for m.
C4_NoneOnlyWhenNoneEligible ==
    (ret.op = "select" /\ ret.err = FALSE)
    => /\ ret.file = NoFile => Eligible(ret.ns, ret.m) = {}
       /\ Eligible(ret.ns, ret.m) \subseteq ret.pool

\* C4 witness: selection for m returned a record whose cooldown for m has
\* expired.
C4_Witness ==
    /\ ret.op = "select" /\ ret.err = FALSE /\ ret.file # NoFile
    /\ ret.m \in DOMAIN pg[ret.ns][ret.file].model_cooldowns
    /\ pg[ret.ns][ret.file].model_cooldowns[ret.m] <= now

\* A record still cooling down for another model was returned for m.
C4_OtherModelReached ==
    /\ ret.op = "select" /\ ret.err = FALSE /\ ret.file # NoFile /\ ret.m # NoneKey
    /\ \E k \in ModelKeys \ {ret.m} : CoolingDown(ret.ns, ret.file, k)

\* Both calls have returned True
BothReturnedTrue == \A i \in Tasks : tasks[i].pc = "done" /\ tasks[i].ok = "True"

\* C31: for any interleaving of two concurrent set_model_cooldown calls on
\* the same credential with different model keys, once both have returned
\* True the stored model_cooldowns holds both entries: no update is lost.
C31_NoLostCooldown ==
    (/\ backend = "pg" /\ tasks # <<>>
     /\ \A i \in Tasks : tasks[i].op = "set_model_cooldown" /\ tasks[i].t # -1
     /\ tasks[1].f = tasks[2].f /\ tasks[1].m # tasks[2].m
     /\ BothReturnedTrue)
    => \A i \in Tasks :
          /\ tasks[i].m \in DOMAIN TaskTable[tasks[i].f].model_cooldowns
          /\ TaskTable[tasks[i].f].model_cooldowns[tasks[i].m] = tasks[i].t

\* The rotation_order values of coexisting records are pairwise distinct
RotationOrdersDistinct ==
    \A f \in DOMAIN TaskTable, g \in DOMAIN TaskTable :
        f # g => TaskTable[f].rotation_order # TaskTable[g].rotation_order

\* A step that inserts a record gives it a rotation_order above that of
\* every record already there, and no step changes the rotation_order of a
\* record it leaves in place
RotationOrderStep ==
    /\ \A f \in DOMAIN pg'[FALSE] \ DOMAIN TaskTable : \A g \in DOMAIN TaskTable :
          pg'[FALSE][f].rotation_order > TaskTable[g].rotation_order
    /\ \A f \in DOMAIN pg'[FALSE] \cap DOMAIN TaskTable :
          pg'[FALSE][f].rotation_order = TaskTable[f].rotation_order

\* C32: in the relational backend, after any interleaving of store_credential
\* and delete_credential calls (concurrent inserts of different filenames
\* included), the rotation_order values of coexisting records are pairwise
\* distinct, a newly inserted record gets a rotation_order greater than that
\* of every record inserted before it, and re-storing an existing filename
\* leaves its rotation_order unchanged.
C32_RotationOrder == []RotationOrdersDistinct /\ [][RotationOrderStep]_vars

\* The number of stored records that hold the refresh_token
HoldersOf(refresh_token) ==
    { f \in Records(FALSE) : StoredToken(FALSE, f) = refresh_token }

\* C35: for any interleaving of two concurrent store_credential calls with
\* different filenames and the same non-empty refresh_token on the same
\* namespace, at most one of them returns True and at most one record with
\* that refresh_token exists afterwards.
C35_ConcurrentDedup ==
    (/\ tasks # <<>>
     /\ \A i \in Tasks : tasks[i].op = "store_credential" /\ tasks[i].pc = "done"
     /\ tasks[1].f # tasks[2].f /\ tasks[1].c = tasks[2].c)
    => /\ ~BothReturnedTrue
       /\ Cardinality(HoldersOf(tasks[1].c["refresh_token"])) <= 1

\* C34: every state-reading operation (get_credential_state,
\* get_all_credential_states, get_credentials_summary) reports for a
\* credential only the model_cooldowns entries whose deadline is later than
\* the current time, and the summary's in_cooldown / no_cooldown filters
\* classify a record by its unexpired entries only.
C34_ExpiredCooldownsInvisible ==
    ret.op \in {"get_state", "get_all_states", "summary"} =>
        /\ \A i \in 1..Len(ret.states) :
              \A m \in DOMAIN ret.states[i].model_cooldowns :
                  ret.states[i].model_cooldowns[m] > now
        /\ ret.cooldown_filter \in {"in_cooldown", "no_cooldown"} =>
              \A f \in DOMAIN pg[ret.ns] :
                  (\E i \in 1..Len(ret.f) : ret.f[i] = f)
                  <=> ((ret.cooldown_filter = "in_cooldown")
                       <=> \E m \in ModelKeys : CoolingDown(ret.ns, f, m))

\* C33: the two storage backends are observationally equivalent: for every
\* sequence of store_credential, get_credential, delete_credential,
\* list_credentials (as a set), update_credential_state and
\* get_credential_state calls applied to both from empty storage, each call
\* returns the same result in the relational backend as in the hash-store
\* backend.
C33_BackendsEquivalent ==
    ret.op \in {"store", "get", "delete", "list", "update_state", "get_state"} =>
        ret.pg = ret.vk

\* The state a stored record carries besides its credential data
RecordState(tbl, hash, f) ==
    IF backend = "pg"
    THEN [k \in STATE_FIELDS \cup {"rotation_order", "call_count"} |-> tbl[f][k]]
    ELSE [k \in DOMAIN hash[f] \cap STATE_FIELDS |-> hash[f][k]]

\* A successful store_credential step on a filename that had a record
\* leaves that record's state as it was
RestoreKeepsState ==
    (/\ nops' = nops + 1
     /\ ret'.op = "store" /\ ret'.ok
     /\ ret'.f \in Records(ret'.ns))
    => RecordState(pg'[ret'.ns], vkHash'[ret'.ns], ret'.f)
         = RecordState(pg[ret'.ns], vkHash[ret'.ns], ret'.f)

\* C36: store_credential on a filename that already exists replaces only
\* the credential data and leaves that record's state unchanged: disabled,
\* error_codes, last_success, user_email, model_cooldowns, rotation_order
\* and call_count keep their values, so re-storing a disabled credential
\* does not make it selectable.
C36_RestoreKeepsState == [][RestoreKeepsState]_vars

\* C36 witness: a store has just succeeded on a record that is disabled
C36_Witness ==
    /\ ret.op = "store" /\ ret.ok
    /\ ret.f \in Records(ret.ns)
    /\ \/ /\ backend = "pg"
          /\ pg[ret.ns][ret.f].disabled = TRUE
          /\ ParseJsonb(pg[ret.ns][ret.f].credential_data) = ret.c
       \/ /\ backend = "vk"
          /\ "disabled" \in DOMAIN vkHash[ret.ns][ret.f]
          /\ vkHash[ret.ns][ret.f]["disabled"] = "true"

\* get_credential(f) can return something other than None
Retrievable(ns, f) ==
    IF backend = "pg" THEN \E o \in PgGetCredential(pg[ns], f) : o.found
    ELSE VkGetCredential(VkDb(ns), f).found

\* f is one of the filenames list_credentials returns
Listed(ns, f) ==
    IF backend = "pg" THEN f \in PgListCredentials(pg[ns])
    ELSE f \in VkListCredentials(VkDb(ns))

RetrievableIffListed ==
    \A ns \in StoreNs, f \in Filenames : Retrievable(ns, f) <=> Listed(ns, f)

\* The credential data a stored record carries
RecordData(tbl, hash, f) ==
    IF backend = "pg" THEN tbl[f].credential_data
    ELSE [k \in DOMAIN hash[f] \ STATE_FIELDS |-> hash[f][k]]

\* An update_credential_state step creates no record and leaves the
\* credential data of the record it updates unchanged
UpdateStateWritesStateOnly ==
    (nops' = nops + 1 /\ ret'.op = "update_state")
    => /\ IF backend = "pg" THEN DOMAIN pg'[ret'.ns] = DOMAIN pg[ret'.ns]
          ELSE /\ DOMAIN vkHash'[ret'.ns] = DOMAIN vkHash[ret'.ns]
               /\ vkIndex'[ret'.ns] = vkIndex[ret'.ns]
       /\ ret'.f \in Records(ret'.ns) =>
             RecordData(pg'[ret'.ns], vkHash'[ret'.ns], ret'.f)
               = RecordData(pg[ret'.ns], vkHash[ret'.ns], ret'.f)

\* C37: after any sequence of store_credential, delete_credential and
\* update_credential_state calls, a filename has a retrievable record
\* (get_credential(f) is not None) iff it is listed by list_credentials; in
\* particular update_credential_state on a filename that was never stored,
\* or was already deleted, creates no record, and it writes only the five
\* state fields while leaving the credential data unchanged.
C37_RetrievableIffListed ==
    []RetrievableIffListed /\ [][UpdateStateWritesStateOnly]_vars

\* What a namespace holds under the filenames other than f
OtherRecords(tbl, hash, index, f) ==
    IF backend = "pg" THEN [g \in DOMAIN tbl \ {f} |-> tbl[g]]
    ELSE [hash |-> [g \in DOMAIN hash \ {f} |-> hash[g]], index |-> index \ {f}]

\* A writing call on filename f of one namespace leaves every other record
\* of that namespace and the whole other namespace as they were
WritesOneRecord ==
    (/\ nops' = nops + 1
     /\ ret'.op \in {"store", "delete", "update_state", "set_cooldown"})
    => /\ OtherRecords(pg'[ret'.ns], vkHash'[ret'.ns], vkIndex'[ret'.ns], ret'.f)
            = OtherRecords(pg[ret'.ns], vkHash[ret'.ns], vkIndex[ret'.ns], ret'.f)
       /\ pg'[~ret'.ns] = pg[~ret'.ns]
       /\ vkHash'[~ret'.ns] = vkHash[~ret'.ns]
       /\ vkIndex'[~ret'.ns] = vkIndex[~ret'.ns]

\* C38: a store_credential, delete_credential, update_credential_state or
\* set_model_cooldown call on filename f in one namespace leaves unchanged
\* every record with a different filename in that namespace and every
\* record of the other namespace; in particular delete_credential(f)
\* removes at most the record named exactly f.
C38_OtherRecordsUntouched == [][WritesOneRecord]_vars

-----------------------------------------------------------------------------
(* Response translation (src/src/openai_transfer.py) and the streaming     *)
(* converter's per-chunk processing (src/src/openai_router.py).            *)
(* Text is a sequence of characters. The Markdown literal of an inline     *)
(* image, ![image](data:...), is the single element ImgData; the literal   *)
(* of a hosted or remote image, ![image](https://...), is ImgUrl.          *)

ImgData == "![image](data:image/png;base64,QQ==)"
ImgUrl  == "![image](https://host/i.png)"

T_Hello == <<"H", "e", "l", "l", "o", " ">>
T_wor   == <<"w", "o", "r">>
T_world == <<"w", "o", "r", "l", "d", "!">>

RECURSIVE Concat(_)
\* "".join(seq of texts)
Concat(ss) == IF ss = <<>> THEN <<>> ELSE Head(ss) \o Concat(Tail(ss))

\* text[:i] and text[i:]
Prefix(t, i) == SubSeq(t, 1, i)
Drop(t, i) == SubSeq(t, i + 1, Len(t))

\* str.endswith
EndsWith(a, suffix) ==
    /\ Len(suffix) <= Len(a)
    /\ SubSeq(a, Len(a) - Len(suffix) + 1, Len(a)) = suffix

Min(a, b) == IF a <= b THEN a ELSE b

\* Faulty variant of MapFinishReason: an unknown reason ends as "stop"
MapFinishReasonDefaultStop(gemini_reason) ==
    IF gemini_reason = "MAX_TOKENS" THEN "length"
    ELSE IF gemini_reason \in {"SAFETY", "RECITATION"} THEN "content_filter"
    ELSE "stop"

\* _map_finish_reason; "null" stands for None
MapFinishReason(gemini_reason) ==
    IF gemini_reason = "STOP" THEN "stop"
    ELSE IF gemini_reason = "MAX_TOKENS" THEN "length"
    ELSE IF gemini_reason \in {"SAFETY", "RECITATION"} THEN "content_filter"
    ELSE "null"

\* A part is [kind, text]: kind "text" (a text part), "thought" (a text part
\* with thought = true), "inline" (inlineData), "file" (fileData) or "fc"
\* (functionCall, whose name is in text).
RECURSIVE ExtractContentWithThoughts(_)
\* Faulty variant of ExtractContent: the thought flag is not looked at
ExtractContentWithThoughts(parts) ==
    IF parts = <<>> THEN <<>>
    ELSE (IF Head(parts).kind \in {"text", "thought"} THEN Head(parts).text ELSE <<>>)
         \o ExtractContentWithThoughts(Tail(parts))

RECURSIVE ExtractContent(_)
\* _extract_content_and_reasoning, first component
ExtractContent(parts) ==
    IF parts = <<>> THEN <<>>
    ELSE (IF Head(parts).kind = "text" THEN Head(parts).text ELSE <<>>)
         \o ExtractContent(Tail(parts))

RECURSIVE ExtractReasoning(_)
\* _extract_content_and_reasoning, second component
ExtractReasoning(parts) ==
    IF parts = <<>> THEN <<>>
    ELSE (IF Head(parts).kind = "thought" THEN Head(parts).text ELSE <<>>)
         \o ExtractReasoning(Tail(parts))

RECURSIVE ExtractFirstImageMarkdown(_)
\* _extract_first_image_markdown
ExtractFirstImageMarkdown(parts) ==
    IF parts = <<>> THEN <<>>
    ELSE IF Head(parts).kind = "inline" THEN <<"\n", "\n", ImgData>>
    ELSE IF Head(parts).kind = "file" THEN <<"\n", "\n", ImgUrl>>
    ELSE ExtractFirstImageMarkdown(Tail(parts))

\* The choice gemini_stream_chunk_to_openai builds for one candidate
CandidateToChoice(candidate) ==
    LET content   == ExtractContent(candidate.parts)
                       \o ExtractFirstImageMarkdown(candidate.parts)
        reasoning == ExtractReasoning(candidate.parts)
    IN  [ index         |-> candidate.index,
          has_content   |-> content # <<>>,
          content       |-> content,
          reasoning     |-> reasoning,
          finish_reason |-> MapFinishReason(candidate.finishReason),
          tool_calls    |-> <<>> ]

\* gemini_stream_chunk_to_openai: the choices of the OpenAI chunk
GeminiStreamChunkToOpenai(gemini_chunk) ==
    [i \in 1..Len(gemini_chunk.cands) |-> CandidateToChoice(gemini_chunk.cands[i])]

RECURSIVE FunctionCalls(_)
\* The tool calls built from the functionCall parts of one candidate
FunctionCalls(parts) ==
    IF parts = <<>> THEN <<>>
    ELSE (IF Head(parts).kind = "fc" THEN <<Head(parts).text>> ELSE <<>>)
         \o FunctionCalls(Tail(parts))

\* Tool-call propagation (openai_router.py:411-429): the tool calls of every
\* candidate are appended to the delta of every choice.
InjectToolCalls(gemini_chunk, choices) ==
    LET all == Concat([i \in 1..Len(gemini_chunk.cands) |->
                          FunctionCalls(gemini_chunk.cands[i].parts)])
    IN  [i \in 1..Len(choices) |-> [choices[i] EXCEPT !.tool_calls = @ \o all]]

RECURSIVE OverlapFrom(_, _, _)
\* for i in range(max_overlap, 0, -1): the first i with
\* _accumulated_text.endswith(text[:i]), else 0
OverlapFrom(acc, text, i) ==
    IF i = 0 THEN 0
    ELSE IF EndsWith(acc, Prefix(text, i)) THEN i
    ELSE OverlapFrom(acc, text, i - 1)

\* The overlap computed for one text (openai_router.py:436-441)
Overlap(acc, text) == OverlapFrom(acc, text, Min(Len(acc), Len(text)))

RECURSIVE TrimChoices(_, _, _, _)
\* The duplicate-prefix trim (openai_router.py:431-449) over the choices from
\* position i on. Result: [acc, choices, skip, log]; skip is the StopIteration
\* raised when a text trims to nothing, which drops the whole chunk while acc
\* keeps what earlier choices added. log records every text processed.
TrimChoices(acc, choices, i, log) ==
    IF i > Len(choices) THEN [acc |-> acc, choices |-> choices, skip |-> FALSE, log |-> log]
    ELSE IF ~choices[i].has_content THEN TrimChoices(acc, choices, i + 1, log)
    ELSE LET text    == choices[i].content
             overlap == Overlap(acc, text)
             to_send == Drop(text, overlap)
             entry   == [pos |-> i, acc |-> acc, text |-> text, overlap |-> overlap,
                         to_send |-> to_send, after |-> acc \o to_send]
         IN  IF to_send = <<>>
             THEN [acc |-> acc, choices |-> choices, skip |-> TRUE,
                   log |-> Append(log, entry)]
             ELSE TrimChoices(acc \o to_send,
                              [choices EXCEPT ![i].content = to_send],
                              i + 1, Append(log, entry))

\* content.replace of every inline-image literal by the hosted link
ReplaceImages(content) ==
    [k \in 1..Len(content) |-> IF content[k] = ImgData THEN ImgUrl ELSE content[k]]

\* Image rehosting of a chunk (openai_router.py:450-463): when the upload
\* returns a URL the literal is replaced, when it returns None the content
\* is kept.
RehostChoices(choices, uploaded) ==
    [i \in 1..Len(choices) |->
        IF choices[i].has_content /\ uploaded
        THEN [choices[i] EXCEPT !.content = ReplaceImages(@)]
        ELSE choices[i]]

\* The frames a chunk of the upstream produces
ChunkFrame(choices) == [kind |-> "chunk", choices |-> choices]
DoneFrame == [kind |-> "done", choices |-> <<>>]

\* The in-band error chunk: one choice with content and finish_reason "stop"
ErrorFrame(what) ==
    [ kind    |-> what,
      choices |-> << [ index |-> 0, has_content |-> TRUE, content |-> <<what>>,
                       reasoning |-> <<>>, finish_reason |-> "stop",
                       tool_calls |-> <<>> ] >> ]

\* Faulty variant of StreamErrorFrames: the handler forgets [DONE].
StreamErrorFramesNoDone == << ErrorFrame("Stream error") >>

\* except Exception (openai_router.py:486-500): error chunk, then [DONE]
StreamErrorFrames == << ErrorFrame("Stream error"), DoneFrame >>


(***************************************************************************)
(* convert_streaming_response.openai_stream_generator                      *)
(***************************************************************************)
MaxChunks == 3

TextPart(t) == [kind |-> "text", text |-> t]
Cand(i, parts, fr) == [index |-> i, parts |-> parts, finishReason |-> fr]
JsonChunk(cands) == [kind |-> "json", cands |-> cands]

\* What body_iterator can deliver: an empty chunk, a chunk without the
\* "data: " prefix, a payload that is not JSON (such as "[DONE]"), JSON of
\* an unexpected shape (the translation raises), an iterator that raises,
\* and JSON frames with zero, one or two candidates.
UpstreamChunks ==
    { [kind |-> k, cands |-> <<>>] : k \in {"empty", "nodata", "badjson", "badshape", "raise"} }
    \cup
    { JsonChunk(<<>>),
      JsonChunk(<< Cand(0, <<TextPart(T_Hello)>>, "null") >>),
      JsonChunk(<< Cand(0, <<TextPart(T_wor)>>, "null") >>),
      JsonChunk(<< Cand(0, <<TextPart(T_world)>>, "null") >>),
      JsonChunk(<< Cand(0, <<TextPart(T_wor)>>, "STOP") >>),
      JsonChunk(<< Cand(0, <<>>, "STOP") >>),
      JsonChunk(<< Cand(0, <<[kind |-> "thought", text |-> T_wor]>>, "null") >>),
      JsonChunk(<< Cand(0, <<[kind |-> "fc", text |-> <<"f">>]>>, "null") >>),
      JsonChunk(<< Cand(0, <<TextPart(T_wor), [kind |-> "fc", text |-> <<"f">>]>>, "null") >>),
      JsonChunk(<< Cand(0, <<[kind |-> "inline", text |-> <<>>]>>, "null") >>),
      JsonChunk(<< Cand(0, <<TextPart(T_wor)>>, "null"), Cand(1, <<TextPart(T_wor)>>, "null") >>),
      JsonChunk(<< Cand(0, <<[kind |-> "fc", text |-> <<"f">>]>>, "null"),
                   Cand(1, <<TextPart(T_wor)>>, "null") >>),
      JsonChunk(<< Cand(0, <<TextPart(T_Hello)>>, "null"), Cand(1, <<TextPart(T_world)>>, "null") >>) }

Converting == mode \in {"direct", "antitrunc"}

fakeVars == <<clock, task, hbAt>>

\* One iteration of the async for over a chunk the loop skips
\* (openai_router.py:394-406, 465-466)
ConvertSkip(chunk) ==
    /\ chunk.kind \in {"empty", "nodata", "badjson"}
    /\ nchunks' = nchunks + 1
    /\ lastTrim' = [NoTrim EXCEPT !.kind = chunk.kind]
    /\ UNCHANGED <<mode, hasIter, picgo, pc, accumulated_text, out, cancelled>>

\* The iterator or the translation raises: the outer except Exception
ConvertRaise(chunk) ==
    /\ chunk.kind \in {"badshape", "raise"}
    /\ nchunks' = nchunks + 1
    /\ lastTrim' = [NoTrim EXCEPT !.kind = chunk.kind]
    /\ out' = out \o StreamErrorFrames
    /\ pc' = "end"
    /\ UNCHANGED <<mode, hasIter, picgo, accumulated_text, cancelled>>

\* One iteration over a JSON frame: translate, add tool calls, trim,
\* rehost, yield (openai_router.py:408-464)
ConvertJson(chunk, uploaded) ==
    /\ chunk.kind = "json"
    /\ uploaded => picgo
    /\ LET choices == InjectToolCalls(chunk, GeminiStreamChunkToOpenai(chunk))
           tr      == TrimChoices(accumulated_text, choices, 1, <<>>)
       IN  /\ accumulated_text' = tr.acc
           /\ out' = IF tr.skip THEN out
                     ELSE Append(out, ChunkFrame(RehostChoices(tr.choices, uploaded)))
           /\ lastTrim' = [kind |-> "json", json |-> TRUE, cands |-> chunk.cands,
                           input |-> choices, log |-> tr.log,
                           emitted |-> ~tr.skip,
                           frame |-> IF tr.skip THEN 0 ELSE Len(out) + 1]
    /\ nchunks' = nchunks + 1
    /\ UNCHANGED <<mode, hasIter, picgo, pc, cancelled>>

ConvertChunk ==
    /\ Converting /\ pc = "run" /\ hasIter /\ nchunks < MaxChunks
    /\ \E chunk \in UpstreamChunks :
          \/ ConvertSkip(chunk)
          \/ ConvertRaise(chunk)
          \/ \E uploaded \in BOOLEAN : ConvertJson(chunk, uploaded)
    /\ UNCHANGED <<storeVars, cfgVars, chatVars, taskVars, fakeVars>>

\* body_iterator is exhausted: the end marker (openai_router.py:484)
ConvertEnd ==
    /\ Converting /\ pc = "run" /\ hasIter
    /\ out' = Append(out, DoneFrame)
    /\ pc' = "end"
    /\ UNCHANGED <<storeVars, cfgVars, chatVars, taskVars, fakeVars, mode, hasIter, picgo, accumulated_text,
                   nchunks, lastTrim, cancelled>>

\* The response has no body_iterator (openai_router.py:467-484)
ConvertUnexpectedType ==
    /\ Converting /\ pc = "run" /\ ~hasIter
    /\ out' = out \o << ErrorFrame("Response type error"), DoneFrame >>
    /\ pc' = "end"
    /\ UNCHANGED <<storeVars, cfgVars, chatVars, taskVars, fakeVars, mode, hasIter, picgo, accumulated_text,
                   nchunks, lastTrim, cancelled>>

\* The client goes away while the generator is suspended: the exception
\* delivered is not an Exception, so no handler of the generator runs.
ConvertCancel ==
    /\ Converting /\ pc = "run"
    /\ cancelled' = TRUE
    /\ pc' = "end"
    /\ UNCHANGED <<storeVars, cfgVars, chatVars, taskVars, fakeVars, mode, hasIter, picgo, accumulated_text,
                   out, nchunks, lastTrim>>

(***************************************************************************)
(* fake_stream_response.stream_generator                                   *)
(***************************************************************************)
MaxDelay == 7
HEARTBEAT == 3

\* The heartbeat chunk: empty content, finish_reason None
HeartbeatFrame ==
    [ kind    |-> "heartbeat",
      choices |-> << [ index |-> 0, has_content |-> TRUE, content |-> <<>>,
                       reasoning |-> <<>>, finish_reason |-> "null",
                       tool_calls |-> <<>> ] >> ]

\* What the backend request can produce: a Gemini body (the parts of its
\* first candidate), an OpenAI body, a JSON object with neither key, a body
\* that is not JSON, JSON that is not an object, or an exception.
FakeResponses ==
    { [kind |-> "gemini", parts |-> ps] :
         ps \in { <<TextPart(T_Hello)>>,
                  <<[kind |-> "thought", text |-> T_wor]>>,
                  <<TextPart(T_Hello), [kind |-> "thought", text |-> T_wor]>>,
                  <<[kind |-> "inline", text |-> <<>>]>>,
                  <<>> } }
    \cup
    { [kind |-> k, parts |-> <<>>] : k \in {"openai", "nocontent", "notjson", "nondict", "raise"} }

StopChunk(content, reasoning) ==
    [ kind    |-> "chunk",
      choices |-> << [ index |-> 0, has_content |-> TRUE, content |-> content,
                       reasoning |-> reasoning, finish_reason |-> "stop",
                       tool_calls |-> <<>> ] >> ]

\* The single chunk built from the response (openai_router.py:294-364)
FakeContentFrame(response, uploaded) ==
    IF response.kind = "notjson" THEN StopChunk(<<"body_str">>, <<>>)
    ELSE LET extracted == IF response.kind = "gemini"
                          THEN ExtractContent(response.parts)
                                  \o ExtractFirstImageMarkdown(response.parts)
                          ELSE IF response.kind = "openai" THEN T_wor
                          ELSE <<>>
             reasoning == IF response.kind = "gemini"
                          THEN ExtractReasoning(response.parts) ELSE <<>>
             content   == IF extracted = <<>> /\ reasoning # <<>>
                          THEN <<"[thinking]">> ELSE extracted
         IN  IF content # <<>>
             THEN StopChunk(IF uploaded THEN ReplaceImages(content) ELSE content, reasoning)
             ELSE StopChunk(<<"[empty]">>, <<>>)

\* response_task.done() at time clk. An answer that arrives at the very
\* instant of the check may or may not have been processed yet.
TaskDone(t, clk) ==
    IF clk - t.created > t.delay THEN {TRUE}
    ELSE IF clk - t.created = t.delay THEN {TRUE, FALSE}
    ELSE {FALSE}

\* Faulty variant of HeartbeatAfterSleep: no second look at the task.
HeartbeatAfterEverySleep(done) == TRUE

\* if not response_task.done(): after the sleep (openai_router.py:258)
HeartbeatAfterSleep(done) == ~done

Faking == mode = "fake"

convVars == <<mode, hasIter, picgo, accumulated_text, nchunks, lastTrim>>

\* The generator starts and yields the first heartbeat (openai_router.py:245)
FakeStart ==
    /\ Faking /\ pc = "start"
    /\ out' = Append(out, HeartbeatFrame)
    /\ hbAt' = Append(hbAt, clock)
    /\ pc' = "yield0"
    /\ UNCHANGED <<storeVars, cfgVars, chatVars, taskVars, convVars, cancelled, clock, task>>

\* Resumed from the first yield: the task is created and, not being done
\* yet, the loop enters its first sleep (openai_router.py:252-257)
FakeCreateTask ==
    /\ Faking /\ pc = "yield0"
    /\ \E d \in 0..MaxDelay, r \in FakeResponses :
          task' = [state |-> "running", created |-> clock, delay |-> d, response |-> r]
    /\ pc' = "sleep"
    /\ UNCHANGED <<storeVars, cfgVars, chatVars, taskVars, convVars, cancelled, clock, out, hbAt>>

\* The result of await response_task and what follows (openai_router.py:262-364):
\* an exception or an unusable body goes to the outer handler, any other
\* response gives one chunk.
FakeAnswer(uploaded) ==
    /\ uploaded => picgo
    /\ task' = [task EXCEPT !.state = "done"]
    /\ IF task.response.kind \in {"raise", "nondict"}
       THEN /\ out' = Append(out, ErrorFrame("Error"))
            /\ pc' = "yield_error"
       ELSE /\ out' = Append(out, FakeContentFrame(task.response, uploaded))
            /\ pc' = "yield_content"
    /\ UNCHANGED hbAt

\* asyncio.sleep(3.0) returns (openai_router.py:257-262)
FakeWake ==
    /\ Faking /\ pc = "sleep"
    /\ clock' = clock + HEARTBEAT
    /\ \E done \in TaskDone(task, clock') :
          IF HeartbeatAfterSleep(done)
          THEN /\ out' = Append(out, HeartbeatFrame)
               /\ hbAt' = Append(hbAt, clock')
               /\ pc' = "yield_hb"
               /\ UNCHANGED task
          ELSE \E uploaded \in BOOLEAN : FakeAnswer(uploaded)
    /\ UNCHANGED <<storeVars, cfgVars, chatVars, taskVars, convVars, cancelled>>

\* Resumed from a heartbeat yield: the loop condition (openai_router.py:256)
FakeResumeHeartbeat ==
    /\ Faking /\ pc = "yield_hb"
    /\ IF clock - task.created >= task.delay
       THEN \E uploaded \in BOOLEAN : FakeAnswer(uploaded)
       ELSE /\ pc' = "sleep"
            /\ UNCHANGED <<out, hbAt, task>>
    /\ UNCHANGED <<storeVars, cfgVars, chatVars, taskVars, convVars, cancelled, clock>>

\* Resumed from the content or the error chunk: [DONE] (openai_router.py:366, 378)
FakeDone ==
    /\ Faking /\ pc \in {"yield_content", "yield_error"}
    /\ out' = Append(out, DoneFrame)
    /\ pc' = "yield_done"
    /\ UNCHANGED <<storeVars, cfgVars, chatVars, taskVars, convVars, cancelled, fakeVars>>

\* Resumed from the last yield: the generator returns
FakeEnd ==
    /\ Faking /\ pc = "yield_done"
    /\ pc' = "end"
    /\ UNCHANGED <<storeVars, cfgVars, chatVars, taskVars, convVars, cancelled, fakeVars, out>>

\* The client goes away while the generator awaits the sleep: CancelledError
\* is raised there, the handler cancels and awaits the task
\* (openai_router.py:264-271)
FakeCancelInSleep ==
    /\ Faking /\ pc = "sleep"
    /\ task' = [task EXCEPT !.state = "cancelled"]
    /\ cancelled' = TRUE
    /\ pc' = "end"
    /\ UNCHANGED <<storeVars, cfgVars, chatVars, taskVars, convVars, clock, hbAt, out>>

\* The client goes away while the generator is suspended at a yield: the
\* generator is closed there with GeneratorExit, which is neither a
\* CancelledError nor an Exception, so no handler runs.
FakeCancelAtYield ==
    /\ Faking /\ pc \in {"yield0", "yield_hb", "yield_content", "yield_error", "yield_done"}
    /\ task' = IF task.state = "running" /\ clock - task.created >= task.delay
               THEN [task EXCEPT !.state = "done"] ELSE task
    /\ cancelled' = TRUE
    /\ pc' = "end"
    /\ UNCHANGED <<storeVars, cfgVars, chatVars, taskVars, convVars, clock, hbAt, out>>

(***************************************************************************)
(* The SSE specification: one response in one of the three streaming modes *)
(***************************************************************************)
SSEInit ==
    /\ backend = "pg" /\ pg = [ns \in Namespaces |-> EmptyMap]
    /\ vkHash = [ns \in Namespaces |-> EmptyMap]
    /\ vkIndex = [ns \in Namespaces |-> {}]
    /\ now = 0 /\ nops = 0 /\ ret = [op |-> "init"]
    /\ mode \in {"direct", "antitrunc", "fake"}
    /\ hasIter \in (IF mode = "fake" THEN {FALSE} ELSE BOOLEAN)
    /\ picgo \in BOOLEAN
    /\ pc = IF mode = "fake" THEN "start" ELSE "run"
    /\ accumulated_text = <<>> /\ out = <<>> /\ nchunks = 0
    /\ lastTrim = NoTrim /\ cancelled = FALSE /\ clock = 0
    /\ task = NoTask /\ hbAt = <<>>
    /\ CfgIdle
    /\ ChatIdle
    /\ TasksIdle

SSENext ==
    \/ ConvertChunk
    \/ ConvertEnd
    \/ ConvertUnexpectedType
    \/ ConvertCancel
    \/ FakeStart
    \/ FakeCreateTask
    \/ FakeWake
    \/ FakeResumeHeartbeat
    \/ FakeDone
    \/ FakeEnd
    \/ FakeCancelInSleep
    \/ FakeCancelAtYield

SpecSSE == SSEInit /\ [][SSENext]_vars

-----------------------------------------------------------------------------
(* Properties of the streaming converter                                   *)

\* The longest suffix of a that is a prefix of t, stated directly
LongestOverlap(a, t) ==
    LET fits == { i \in 0..Min(Len(a), Len(t)) : i = 0 \/ EndsWith(a, Prefix(t, i)) }
    IN  CHOOSE i \in fits : \A j \in fits : j <= i

\* The text the client received for the choice at position pos of the last
\* upstream JSON frame
EmittedFor(pos) ==
    IF lastTrim.emitted THEN out[lastTrim.frame].choices[pos].content ELSE <<>>

\* The text deltas of one frame, and of all frames, concatenated
FrameText(f) ==
    Concat([i \in 1..Len(f.choices) |->
               IF f.choices[i].has_content THEN f.choices[i].content ELSE <<>>])
EmittedText ==
    Concat([k \in 1..Len(out) |-> IF out[k].kind = "chunk" THEN FrameText(out[k]) ELSE <<>>])

\* C5: for every incoming text t and buffer A (rehosting disabled, so that
\* the emitted content is the trimmed text), the overlap is the length of
\* the longest suffix of A that is a prefix of t, the text emitted for t is
\* t[overlap:], and A becomes A + t[overlap:].
C5_TrimEmitsRemainder ==
    (Converting /\ ~picgo) =>
        \A k \in 1..Len(lastTrim.log) :
            LET e == lastTrim.log[k]
            IN  /\ e.overlap = LongestOverlap(e.acc, e.text)
                /\ e.after = e.acc \o Drop(e.text, e.overlap)
                /\ EmittedFor(e.pos) = Drop(e.text, e.overlap)

\* The example of the restart: "Hello ", "wor", then "world!" reaches the
\* client as "Hello ", "wor", "ld!".
RestartExampleReached ==
    /\ Converting /\ Len(out) = 3
    /\ FrameText(out[1]) = T_Hello /\ FrameText(out[2]) = T_wor
    /\ FrameText(out[3]) = <<"l", "d", "!">>
    /\ lastTrim.input[1].content = T_world

\* C6: at every point the text deltas emitted so far (rehosting disabled)
\* concatenate to the buffer A, no emitted delta is the empty string, and
\* every earlier value of A is a prefix of every later one.
C6_AppendOnly ==
    /\ [] ( (Converting /\ ~picgo) =>
               /\ EmittedText = accumulated_text
               /\ \A k \in 1..Len(out) : out[k].kind = "chunk" =>
                     \A i \in 1..Len(out[k].choices) :
                        out[k].choices[i].has_content => out[k].choices[i].content # <<>> )
    /\ [][ Len(accumulated_text) <= Len(accumulated_text')
           /\ Prefix(accumulated_text', Len(accumulated_text)) = accumulated_text ]_vars

\* C10: in direct streaming with rehosting disabled, the last upstream
\* JSON frame produced one emitted frame whose choices carry the translated
\* upstream text.
C10_DirectPassThrough ==
    (mode = "direct" /\ ~picgo /\ lastTrim.json) =>
        /\ lastTrim.emitted
        /\ Len(out[lastTrim.frame].choices) = Len(lastTrim.input)
        /\ \A i \in 1..Len(lastTrim.input) :
              out[lastTrim.frame].choices[i].content = lastTrim.input[i].content

EmittedBeforeFor(index) ==
    Concat([k \in 1..Len(out) |->
              IF out[k].kind = "chunk" /\ k # lastTrim.frame
              THEN Concat([i \in 1..Len(out[k].choices) |->
                             IF /\ out[k].choices[i].index = index
                                /\ out[k].choices[i].has_content
                             THEN out[k].choices[i].content ELSE <<>>])
              ELSE <<>>])

\* C40: in a streaming response with more than one candidate, what is
\* emitted for the choice with index i depends only on the upstream parts of
\* the candidate with index i: its text is de-duplicated against the text
\* emitted before for that same choice only, and a functionCall part of
\* candidate i appears in delta.tool_calls of choice i and of no other.
C40_ChoicesIndependent ==
    (Converting /\ ~picgo /\ lastTrim.json) =>
        /\ \A k \in 1..Len(lastTrim.log) :
              LET e == lastTrim.log[k]
              IN  e.overlap
                    = LongestOverlap(EmittedBeforeFor(lastTrim.input[e.pos].index), e.text)
        /\ lastTrim.emitted =>
              \A i \in 1..Len(lastTrim.cands) :
                  out[lastTrim.frame].choices[i].tool_calls
                    = FunctionCalls(lastTrim.cands[i].parts)

-----------------------------------------------------------------------------
(* Properties of the end marker, the heartbeats and cancellation           *)

DoneCount == Cardinality({ k \in 1..Len(out) : out[k] = DoneFrame })

\* C7: an SSE response in any of the three modes that ends without the
\* client going away (upstream complete, unexpected response type, or an
\* exception while processing) has emitted exactly one [DONE], and [DONE]
\* is never followed by another frame.
C7_ExactlyOneDoneLast ==
    mode # "none" =>
        /\ DoneCount <= 1
        /\ DoneCount = 1 => out[Len(out)] = DoneFrame
        /\ (pc = "end" /\ ~cancelled) => DoneCount = 1

\* An exception while converting ended the response with error chunk, [DONE]
C7_Witness ==
    /\ Converting /\ pc = "end" /\ ~cancelled
    /\ Len(out) >= 3
    /\ out[Len(out) - 1] = ErrorFrame("Stream error")
    /\ out[Len(out)] = DoneFrame

\* C8: a fake-streaming response emits one heartbeat before the backend
\* call is started, one more at each elapsed 3-second interval at which the
\* call is still pending, then one chunk with finish_reason "stop", then
\* [DONE]; no heartbeat follows the chunk; an answer after 7 s gives exactly
\* three heartbeats.
C8_HeartbeatSchedule ==
    Faking =>
        /\ task.state = "none" => out \in { <<>>, <<HeartbeatFrame>> }
        /\ task.state # "none" => out[1] = HeartbeatFrame
        /\ \A k \in 1..Len(hbAt) :
              /\ hbAt[k] = (k - 1) * HEARTBEAT
              /\ k > 1 => /\ task.state # "none"
                          /\ hbAt[k] - task.created <= task.delay
        /\ \A i \in 1..Len(out) : \A j \in i..Len(out) :
              out[i].kind # "heartbeat" => out[j].kind # "heartbeat"
        /\ (pc = "end" /\ ~cancelled) =>
              LET n == Len(hbAt)
              IN  /\ Len(out) = n + 2
                  /\ \A k \in 1..n : out[k] = HeartbeatFrame
                  /\ out[n + 1].kind # "heartbeat"
                  /\ Len(out[n + 1].choices) = 1
                  /\ out[n + 1].choices[1].finish_reason = "stop"
                  /\ out[n + 2] = DoneFrame
                  /\ \A j \in 1..MaxDelay : j * HEARTBEAT < task.delay => j + 1 <= n
                  /\ task.delay = 7 => n = 3

\* The backend answered after 7 s and the response is complete
C8_Witness ==
    /\ Faking /\ pc = "end" /\ ~cancelled
    /\ task.delay = 7 /\ task.response.kind = "gemini"
    /\ hbAt = <<0, 3, 6>>

\* C9: once the generator of a cancelled fake-streaming response has
\* terminated, no backend task is still running.
C9_CancelStopsTask ==
    (Faking /\ cancelled /\ pc = "end") => task.state # "running"

\* Cancellation during the sleep does cancel the task
CancelInSleepReached ==
    Faking /\ cancelled /\ pc = "end" /\ task.state = "cancelled"

-----------------------------------------------------------------------------
(* Conversion failures                                                     *)

\* C11: whenever the last upstream frame failed to convert (its payload is
\* not valid JSON, or is JSON of an unexpected shape), the response has ended
\* with an in-band error chunk followed by [DONE]: the frame was not
\* silently dropped.
C11_FailingFrameReported ==
    (Converting /\ ~cancelled /\ lastTrim.kind \in {"badjson", "badshape"}) =>
        /\ pc = "end"
        /\ Len(out) >= 2
        /\ out[Len(out) - 1] = ErrorFrame("Stream error")
        /\ out[Len(out)] = DoneFrame

\* A frame of unexpected shape does end the response with error chunk, [DONE]
BadShapeReported ==
    /\ Converting /\ lastTrim.kind = "badshape" /\ pc = "end"
    /\ out[Len(out) - 1] = ErrorFrame("Stream error") /\ out[Len(out)] = DoneFrame

-----------------------------------------------------------------------------
(* Round trips of the credential store                                     *)

\* C12: in both backends, when store_credential(f, c) returned True, a
\* get_credential(f) that immediately follows in the same namespace returns
\* exactly c: no field missing, none left over from earlier stores or state
\* updates of f.
C12_StoreThenGet ==
    [][ (/\ ret.op = "store" /\ ret.ok = TRUE
         /\ nops' = nops + 1
         /\ ret'.op = "get" /\ ret'.ns = ret.ns /\ ret'.f = ret.f)
        => (ret'.found = TRUE /\ ret'.data = ret.c) ]_vars

\* The store/get round trip on the relational backend alone
StoreThenGetPg ==
    [][ (/\ backend = "pg"
         /\ ret.op = "store" /\ ret.ok = TRUE
         /\ nops' = nops + 1
         /\ ret'.op = "get" /\ ret'.ns = ret.ns /\ ret'.f = ret.f)
        => (ret'.found = TRUE /\ ret'.data = ret.c) ]_vars

\* C13: in both backends, a get_credential(f) that immediately follows
\* delete_credential(f) in the same namespace returns None, also when other
\* stored filenames end with f.
C13_DeleteThenGet ==
    [][ (/\ ret.op = "delete"
         /\ nops' = nops + 1
         /\ ret'.op = "get" /\ ret'.ns = ret.ns /\ ret'.f = ret.f)
        => ret'.found = FALSE ]_vars

\* The delete/get round trip on the key-value backend alone
DeleteThenGetVk ==
    [][ (/\ backend = "vk"
         /\ ret.op = "delete"
         /\ nops' = nops + 1
         /\ ret'.op = "get" /\ ret'.ns = ret.ns /\ ret'.f = ret.f)
        => ret'.found = FALSE ]_vars

-----------------------------------------------------------------------------
(***************************************************************************)
(* Configuration store and lifecycle of the storage managers               *)
(***************************************************************************)
ConfigKeys == {"k1", "k2"}

\* Python values as [t, s]: the type and the JSON text of the value (for a
\* str, its characters).
StrValue(s) == [t |-> "str", s |-> s]
NoneValue == [t |-> "null", s |-> "null"]
ConfigValues ==
    { StrValue("abc"), StrValue("123"), StrValue("true"),
      [t |-> "int", s |-> "123"], [t |-> "bool", s |-> "true"],
      NoneValue, [t |-> "list", s |-> "[1]"] }

\* json.dumps(value)
ConfigDumps(v) == IF v.t = "str" THEN "\"" \o v.s \o "\"" ELSE v.s

\* json.loads(text) where the callers keep the raw text when it raises
\* (valkey_manager.py:270-274, 316-320)
ConfigLoadsOrRaw(text) ==
    IF \E v \in ConfigValues : ConfigDumps(v) = text
    THEN CHOOSE v \in ConfigValues : ConfigDumps(v) = text
    ELSE StrValue(text)

\* ValkeyManager.set_config: the text written for a value
\* (valkey_manager.py:287-293)
VkSerializeConfig(v) ==
    IF v.t \in {"list", "bool"} THEN ConfigDumps(v)
    ELSE IF v.t = "null" THEN ""
    ELSE v.s

\* The text set_config writes to the backend
SerializeConfig(b, v) == IF b = "pg" THEN ConfigDumps(v) ELSE VkSerializeConfig(v)

\* PostgresManager._load_config_cache: nothing when already loaded; on a
\* backend error the cache is emptied; otherwise every row's value, as the
\* driver returns it (the JSON text), is written over the cache.
PgLoadConfigCache(cache, db, loaded, fails) ==
    IF loaded THEN [cache |-> cache, loaded |-> TRUE]
    ELSE IF fails THEN [cache |-> <<>>, loaded |-> FALSE]
    ELSE [ cache  |-> [k \in DOMAIN cache \cup DOMAIN db |->
                          IF k \in DOMAIN db THEN StrValue(db[k]) ELSE cache[k]],
           loaded |-> TRUE ]

\* ValkeyManager.get_all_config: an empty hash returns {} and leaves the
\* cache; otherwise the decoded hash replaces the cache.
VkGetAllConfig(cache, db, loaded) ==
    IF DOMAIN db = {} THEN [cache |-> cache, loaded |-> loaded]
    ELSE [cache |-> [k \in DOMAIN db |-> ConfigLoadsOrRaw(db[k])], loaded |-> TRUE]

\* get_config: PostgresManager serves from the cache, ValkeyManager reads
\* the backend; None when the key is absent.
ConfigGet(b, cache, db, k) ==
    IF b = "pg" THEN DictGet(cache, k, NoneValue)
    ELSE IF k \in DOMAIN db THEN ConfigLoadsOrRaw(db[k]) ELSE NoneValue

\* The credential and state operations, which start with the
\* initialization check; selection, cooldowns and the summary exist on
\* PostgresManager only.
AdapterOperations(b) ==
    { "store_credential", "get_credential", "delete_credential", "list_credentials",
      "update_credential_state", "get_credential_state", "get_all_credential_states" }
    \cup (IF b = "pg"
          THEN {"get_credentials_summary", "get_next_available_credential",
                "set_model_cooldown"}
          ELSE {})

idleVars == <<pg, vkHash, vkIndex, now, sseVars>>

\* What the initialization check at the head of an operation can do:
\* PostgresManager._ensure_initialized raises when not initialized;
\* ValkeyManager calls initialize(), which raises when the backend cannot be
\* reached.
EnsureOutcomes ==
    IF initialized THEN {"ready"}
    ELSE IF backend = "pg" THEN {"raise"}
    ELSE {"ready", "raise"}


\* initialize(): nothing when already initialized; it raises when the
\* backend cannot be reached; PostgresManager then loads the config cache,
\* whose own failure is swallowed.
Initialize ==
    /\ nops < MaxOps
    /\ nops' = nops + 1
    /\ IF initialized
       THEN /\ ret' = [op |-> "initialize", raised |-> FALSE, err |-> FALSE]
            /\ UNCHANGED cfgVars
       ELSE \/ /\ ret' = [op |-> "initialize", raised |-> TRUE, err |-> TRUE]
               /\ UNCHANGED cfgVars
            \/ /\ backend = "pg"
               /\ \E fails \in BOOLEAN :
                     LET l == PgLoadConfigCache(cfgCache, cfgDb, cfgLoaded, fails)
                     IN  /\ cfgCache' = l.cache
                         /\ cfgLoaded' = l.loaded
                         /\ ret' = [op |-> "initialize", raised |-> FALSE, err |-> fails]
               /\ initialized' = TRUE
               /\ UNCHANGED cfgDb
            \/ /\ backend = "vk"
               /\ initialized' = TRUE
               /\ ret' = [op |-> "initialize", raised |-> FALSE, err |-> FALSE]
               /\ UNCHANGED <<cfgDb, cfgCache, cfgLoaded>>
    /\ UNCHANGED <<backend, idleVars, chatVars, taskVars>>

\* close(): the connection is dropped; the cache and _config_loaded stay
Close ==
    /\ nops < MaxOps
    /\ nops' = nops + 1
    /\ initialized
    /\ initialized' = FALSE
    /\ ret' = [op |-> "close", raised |-> FALSE]
    /\ UNCHANGED <<backend, idleVars, chatVars, taskVars, cfgDb, cfgCache, cfgLoaded>>

\* A credential, state, cooldown or summary operation called on a manager
\* that is not initialized, when its initialization check raises
OperationUninitialized(op) ==
    /\ nops < MaxOps
    /\ nops' = nops + 1
    /\ "raise" \in EnsureOutcomes
    /\ ret' = [op |-> op, raised |-> TRUE]
    /\ UNCHANGED <<backend, idleVars, chatVars, taskVars, cfgVars>>

\* set_config(key, value)
SetConfig(key, value) ==
    /\ nops < MaxOps
    /\ nops' = nops + 1
    /\ \E e \in EnsureOutcomes :
          IF e = "raise"
          THEN /\ ret' = [op |-> "set_config", k |-> key, v |-> value, raised |-> TRUE]
               /\ UNCHANGED cfgVars
          ELSE /\ initialized' = TRUE
               /\ \/ /\ ret' = [op |-> "set_config", k |-> key, v |-> value,
                                raised |-> FALSE, ok |-> FALSE]
                     /\ UNCHANGED <<cfgDb, cfgCache, cfgLoaded>>
                  \/ /\ cfgDb' = DictSet(cfgDb, key, SerializeConfig(backend, value))
                     /\ cfgCache' = DictSet(cfgCache, key, value)
                     /\ ret' = [op |-> "set_config", k |-> key, v |-> value,
                                raised |-> FALSE, ok |-> TRUE]
                     /\ UNCHANGED cfgLoaded
    /\ UNCHANGED <<backend, idleVars, chatVars, taskVars>>

\* delete_config(key)
DeleteConfig(key) ==
    /\ nops < MaxOps
    /\ nops' = nops + 1
    /\ \E e \in EnsureOutcomes :
          IF e = "raise"
          THEN /\ ret' = [op |-> "delete_config", k |-> key, raised |-> TRUE]
               /\ UNCHANGED cfgVars
          ELSE /\ initialized' = TRUE
               /\ \/ /\ ret' = [op |-> "delete_config", k |-> key, raised |-> FALSE,
                                ok |-> FALSE]
                     /\ UNCHANGED <<cfgDb, cfgCache, cfgLoaded>>
                  \/ /\ cfgDb' = DictPop(cfgDb, key)
                     /\ cfgCache' = DictPop(cfgCache, key)
                     /\ ret' = [op |-> "delete_config", k |-> key, raised |-> FALSE,
                                ok |-> TRUE]
                     /\ UNCHANGED cfgLoaded
    /\ UNCHANGED <<backend, idleVars, chatVars, taskVars>>

\* The set_config that came just before, if it succeeded
PrevSet == IF ret.op = "set_config" /\ ~ret.raised THEN ret ELSE [op |-> "other"]

\* reload_config_cache()
ReloadConfigCache ==
    /\ nops < MaxOps
    /\ nops' = nops + 1
    /\ \E e \in EnsureOutcomes :
          IF e = "raise"
          THEN /\ ret' = [op |-> "reload_config_cache", raised |-> TRUE]
               /\ UNCHANGED cfgVars
          ELSE /\ initialized' = TRUE
               /\ \E fails \in BOOLEAN :
                     LET l == IF backend = "pg"
                              THEN PgLoadConfigCache(cfgCache, cfgDb, FALSE, fails)
                              ELSE IF fails THEN [cache |-> cfgCache, loaded |-> cfgLoaded]
                              ELSE VkGetAllConfig(cfgCache, cfgDb, cfgLoaded)
                     IN  /\ cfgCache' = l.cache
                         /\ cfgLoaded' = l.loaded
                         /\ ret' = [op |-> "reload_config_cache", raised |-> FALSE,
                                    err |-> fails, prev |-> PrevSet]
               /\ UNCHANGED cfgDb
    /\ UNCHANGED <<backend, idleVars, chatVars, taskVars>>

\* get_config(key)
GetConfig(key) ==
    /\ nops < MaxOps
    /\ nops' = nops + 1
    /\ \E e \in EnsureOutcomes :
          IF e = "raise"
          THEN /\ ret' = [op |-> "get_config", k |-> key, raised |-> TRUE]
               /\ UNCHANGED initialized
          ELSE /\ initialized' = TRUE
               /\ \/ ret' = [op |-> "get_config", k |-> key, raised |-> FALSE,
                             err |-> FALSE,
                             value |-> ConfigGet(backend, cfgCache, cfgDb, key)]
                  \/ /\ backend = "vk"
                     /\ ret' = [op |-> "get_config", k |-> key, raised |-> FALSE,
                                err |-> TRUE, value |-> NoneValue]
    /\ UNCHANGED <<backend, idleVars, chatVars, taskVars, cfgDb, cfgCache, cfgLoaded>>

\* The config a previous run left in the backend: set_config("k1", "abc")
PriorRunDb(b) == [k \in {"k1"} |-> SerializeConfig(b, StrValue("abc"))]

\* SpecConfig: one manager, freshly constructed or after its first
\* successful initialize(), on a backend that is empty or holds the config
\* of a previous run.
ConfigInit ==
    /\ backend \in {"pg", "vk"}
    /\ pg = [ns \in Namespaces |-> EmptyMap]
    /\ vkHash = [ns \in Namespaces |-> EmptyMap]
    /\ vkIndex = [ns \in Namespaces |-> {}]
    /\ now = 0 /\ nops = 0 /\ ret = [op |-> "init"]
    /\ SseIdle
    /\ ChatIdle
    /\ TasksIdle
    /\ cfgDb \in {EmptyMap, PriorRunDb(backend)}
    /\ initialized \in BOOLEAN
    /\ LET l == IF initialized /\ backend = "pg"
                THEN PgLoadConfigCache(EmptyMap, cfgDb, FALSE, FALSE)
                ELSE [cache |-> EmptyMap, loaded |-> FALSE]
       IN  cfgCache = l.cache /\ cfgLoaded = l.loaded

ConfigNext ==
    \/ Initialize
    \/ Close
    \/ \E op \in AdapterOperations(backend) : OperationUninitialized(op)
    \/ \E k \in ConfigKeys, v \in ConfigValues : SetConfig(k, v)
    \/ \E k \in ConfigKeys : DeleteConfig(k)
    \/ ReloadConfigCache
    \/ \E k \in ConfigKeys : GetConfig(k)

SpecConfig == ConfigInit /\ [][ConfigNext]_vars

\* C14: in both backends, for every key k and JSON-serializable value v,
\* set_config(k, v), then reload_config_cache(), then get_config(k) returns
\* a value equal to v.
C14_ConfigRoundTrip ==
    [][ (/\ ret.op = "reload_config_cache" /\ ~ret.raised /\ ~ret.err
         /\ ret.prev.op = "set_config" /\ ret.prev.ok
         /\ nops' = nops + 1
         /\ ret'.op = "get_config" /\ ret'.k = ret.prev.k
         /\ ~ret'.raised /\ ~ret'.err)
        => ret'.value = ret.prev.v ]_vars

\* Without the reload the value set is the value read, on PostgresManager
SetThenGetPg ==
    [][ (/\ backend = "pg"
         /\ ret.op = "set_config" /\ ~ret.raised /\ ret.ok
         /\ nops' = nops + 1
         /\ ret'.op = "get_config" /\ ret'.k = ret.k /\ ~ret'.raised)
        => ret'.value = ret.v ]_vars

\* C15: after every successful initialize() and every successful
\* reload_config_cache(), the in-memory config mapping has the keys of the
\* backend's config and, for each, the value the backend holds.
C15_CacheEqualsBackend ==
    (ret.op \in {"initialize", "reload_config_cache"} /\ ~ret.raised /\ ~ret.err) =>
        /\ DOMAIN cfgCache = DOMAIN cfgDb
        /\ \A k \in DOMAIN cfgDb : cfgCache[k] = ConfigLoadsOrRaw(cfgDb[k])

\* C16: no credential, state, config, cooldown or summary operation raises
\* to its caller, also when called before initialization or after close().
C16_NeverRaises ==
    (ret.op \notin {"init", "initialize", "close"}) => ret.raised = FALSE

-----------------------------------------------------------------------------
(* chat_completions and openai_request_to_gemini_payload                   *)
(* Message texts are character sequences, so that str.strip, str.split and *)
(* str.join are computed.                                                  *)

MaxMessages == 3

T_S1 == <<"S", "1">>
T_S2 == <<"S", "2">>
T_U  == <<"U">>
T_Hi == <<"H", "i">>
T_A  == <<"A">>
T_P  == <<"P">>
T_Blank == <<" ">>

\* "data:image/png;base64,QQ==" in short, and a URL that is no data URI
DataUri == <<"d", ":", "m", ";", "b", ",", "x">>
HttpUrl == <<"h", ":", "u">>

\* The two literals of the source, non-ASCII characters JSON-escaped
HEALTH_CHECK_CONTENT == <<"gcli2api\\u6b63\\u5e38\\u5de5\\u4f5c\\u4e2d">>
PLACEHOLDER_TEXT == <<"\\u8bf7\\u6839\\u636e\\u7cfb\\u7edf\\u6307\\u4ee4\\u56de\\u7b54\\u3002">>

\* OpenAIChatMessage.content: Union[str, List[Dict], None]
StrContent(s) == [t |-> "str", s |-> s, parts |-> <<>>]
ListContent(ps) == [t |-> "list", s |-> <<>>, parts |-> ps]
NoneContent == [t |-> "none", s |-> <<>>, parts |-> <<>>]

OpenAIText(text) == [type |-> "text", text |-> text, url |-> <<>>]
OpenAIImage(url) == [type |-> "image_url", text |-> <<>>, url |-> url]

Message(role, content) == [role |-> role, content |-> content]

ChatMessages ==
    { Message("system", StrContent(T_S1)),
      Message("system", StrContent(T_S2)),
      Message("system", StrContent(<<>>)),
      Message("system", ListContent(<<OpenAIText(T_P), OpenAIImage(HttpUrl)>>)),
      Message("user", StrContent(T_U)),
      Message("user", StrContent(T_Hi)),
      Message("user", StrContent(T_Blank)),
      Message("user", ListContent(<<OpenAIImage(DataUri)>>)),
      Message("assistant", StrContent(T_A)),
      Message("assistant", NoneContent),
      Message("user", ListContent(<<OpenAIImage(HttpUrl)>>)),
      Message("tool", StrContent(T_A)) }

MessageLists == UNION { [1..n -> ChatMessages] : n \in 0..MaxMessages }

Tokens65535 == [none |-> FALSE, n |-> 65535]
MaxTokensValues ==
    { NoTokens, [none |-> FALSE, n |-> 0], Tokens65535,
      [none |-> FALSE, n |-> 65536] }

\* str.strip()
Whitespace == {" ", "\t", "\n", "\r"}

RECURSIVE LStrip(_)
LStrip(s) == IF s # <<>> /\ Head(s) \in Whitespace THEN LStrip(Tail(s)) ELSE s

RECURSIVE RStrip(_)
RStrip(s) ==
    IF s # <<>> /\ s[Len(s)] \in Whitespace THEN RStrip(SubSeq(s, 1, Len(s) - 1)) ELSE s

Strip(s) == RStrip(LStrip(s))

\* s.split(c): the pieces of s between the occurrences of c
RECURSIVE Split(_, _)
Split(s, c) ==
    IF s = <<>> THEN << <<>> >>
    ELSE LET rest == Split(Tail(s), c)
         IN  IF Head(s) = c THEN << <<>> >> \o rest
             ELSE << <<Head(s)>> \o Head(rest) >> \o Tail(rest)

\* sep.join(ss)
JoinWithoutSeparator(ss, sep) == Concat(ss)

RECURSIVE Join(_, _)
Join(ss, sep) ==
    IF ss = <<>> THEN <<>>
    ELSE IF Len(ss) = 1 THEN ss[1]
    ELSE ss[1] \o sep \o Join(Tail(ss), sep)

\* ChatCompletionRequest(**raw_data): max_tokens is None or an int >= 1
ValidRequest(req) == req.max_tokens.none \/ req.max_tokens.n >= 1

\* The health-check test of chat_completions
IsHealthCheckNever(req) == FALSE

IsHealthCheck(req) ==
    /\ Len(req.messages) = 1
    /\ req.messages[1].role = "user"
    /\ req.messages[1].content = StrContent(T_Hi)

\* The max_tokens limit of chat_completions
ClampMaxTokensOff(max_tokens) == max_tokens

ClampMaxTokens(max_tokens) ==
    IF ~max_tokens.none /\ max_tokens.n > 65535 THEN Tokens65535 ELSE max_tokens

\* The test of the empty-message filter of chat_completions
ValidPart(part) ==
    \/ part.type = "text" /\ Strip(part.text) # <<>>
    \/ part.type = "image_url" /\ part.url # <<>>

HasContent(m) ==
    \/ m.content.t = "str" /\ m.content.s # <<>> /\ Strip(m.content.s) # <<>>
    \/ /\ m.content.t = "list" /\ Len(m.content.parts) > 0
       /\ \E i \in 1..Len(m.content.parts) : ValidPart(m.content.parts[i])

FilterMessages(messages) == SelectSeq(messages, HasContent)

\* The data-URI parse of an image_url part: three unpacking assignments,
\* each raising ValueError unless its split yields exactly two pieces
InlineData(image_url) ==
    LET a == Split(image_url, ";")
    IN  IF Len(a) # 2 THEN [ok |-> FALSE]
        ELSE LET m == Split(a[1], ":")
             IN  IF Len(m) # 2 THEN [ok |-> FALSE]
                 ELSE LET d == Split(a[2], ",")
                      IN  IF Len(d) # 2 THEN [ok |-> FALSE]
                          ELSE [ok |-> TRUE,
                                part |-> [inlineData |->
                                             [mimeType |-> m[2], data |-> d[2]]]]

\* The parts of a list-format message
RECURSIVE GeminiParts(_)
GeminiParts(parts) ==
    IF parts = <<>> THEN <<>>
    ELSE LET part == Head(parts)
             rest == GeminiParts(Tail(parts))
         IN  IF part.type = "text" THEN <<[text |-> part.text]>> \o rest
             ELSE IF part.type = "image_url" /\ part.url # <<>>
                     /\ InlineData(part.url).ok
                  THEN <<InlineData(part.url).part>> \o rest
             ELSE rest

\* What a system message adds to system_instructions
RECURSIVE SystemPartTexts(_)
SystemPartTexts(parts) ==
    IF parts = <<>> THEN <<>>
    ELSE LET part == Head(parts)
         IN  (IF part.type = "text" /\ part.text # <<>> THEN <<part.text>> ELSE <<>>)
             \o SystemPartTexts(Tail(parts))

SystemTexts(content) ==
    IF content.t = "str" THEN <<content.s>>
    ELSE IF content.t = "list" THEN SystemPartTexts(content.parts)
    ELSE <<>>

\* One iteration of the message loop of openai_request_to_gemini_payload.
\* st: [contents, system_instructions, collecting_system]
TranslateMessage(message, compatibility_mode, st) ==
    LET isSystem == message.role = "system"
        collected == isSystem /\ ~compatibility_mode /\ st.collecting_system
        role0 == IF isSystem THEN "user" ELSE message.role
        role == IF role0 = "assistant" THEN "model" ELSE role0
        st1 == IF isSystem THEN st ELSE [st EXCEPT !.collecting_system = FALSE]
    IN  IF collected
        THEN [st EXCEPT !.system_instructions = @ \o SystemTexts(message.content)]
        ELSE IF message.content.t = "list"
        THEN [st1 EXCEPT !.contents =
                 Append(@, [role |-> role, parts |-> GeminiParts(message.content.parts)])]
        ELSE IF message.content.t = "str" /\ message.content.s # <<>>
        THEN [st1 EXCEPT !.contents =
                 Append(@, [role |-> role, parts |-> <<[text |-> message.content.s]>>])]
        ELSE st1

RECURSIVE TranslateMessages(_, _, _)
TranslateMessages(messages, compatibility_mode, st) ==
    IF messages = <<>> THEN st
    ELSE TranslateMessages(Tail(messages), compatibility_mode,
                           TranslateMessage(Head(messages), compatibility_mode, st))

\* The message loop with the compatibility flag read as off
TranslateIgnoringCompatibility(messages, compatibility_mode) ==
    TranslateMessages(messages, FALSE,
        [contents |-> <<>>, system_instructions |-> <<>>, collecting_system |-> TRUE])

Translate(messages, compatibility_mode) ==
    TranslateMessages(messages, compatibility_mode,
        [contents |-> <<>>, system_instructions |-> <<>>,
         collecting_system |-> ~compatibility_mode])

\* openai_request_to_gemini_payload: the "request" member of the payload.
\* Of the generation parameters of openai_request the model carries
\* max_tokens and top_k; generation_config takes temperature, top_p,
\* max_tokens, stop, the penalties, n, seed and response_format, and
\* thinkingConfig is added to it for thinking models.
OpenaiRequestToGeminiPayload(openai_request, compatibility_mode) ==
    LET st == Translate(openai_request.messages, compatibility_mode)
        generation_config ==
            IF openai_request.max_tokens.none THEN EmptyMap
            ELSE DictSet(EmptyMap, "maxOutputTokens", openai_request.max_tokens.n)
        contents ==
            IF st.contents = <<>>
            THEN <<[role |-> "user", parts |-> <<[text |-> PLACEHOLDER_TEXT]>>]>>
            ELSE st.contents
        request_data == [contents |-> contents, generationConfig |-> generation_config]
    IN  IF st.system_instructions # <<>> /\ ~compatibility_mode
        THEN DictSet(request_data, "systemInstruction",
                 [parts |-> <<[text |-> Join(st.system_instructions, <<"\n", "\n">>)]>>])
        ELSE request_data

-----------------------------------------------------------------------------
(* SpecChat: one request to POST /v1/chat/completions, from its arrival to *)
(* the answer of chat_completions or to the call of the backend.           *)

chatIdleVars == <<storeVars, sseVars, cfgVars, taskVars>>

\* authenticate: the bearer token differs from the password
ChatForbidden ==
    /\ chatpc = "received"
    /\ ~request.authorized
    /\ chatpc' = "done"
    /\ reply' = [status |-> 403, content |-> <<>>]
    /\ UNCHANGED <<chatIdleVars, request, api_payload, selections, call_count>>

\* ChatCompletionRequest(**raw_data) raises: 400
ChatInvalid ==
    /\ chatpc = "received"
    /\ request.authorized
    /\ ~ValidRequest(request)
    /\ chatpc' = "done"
    /\ reply' = [status |-> 400, content |-> <<>>]
    /\ UNCHANGED <<chatIdleVars, request, api_payload, selections, call_count>>

\* The health check: the canned completion is returned
ChatHealthCheck ==
    /\ chatpc = "received"
    /\ request.authorized
    /\ ValidRequest(request)
    /\ IsHealthCheck(request)
    /\ chatpc' = "done"
    /\ reply' = [status |-> 200, content |-> HEALTH_CHECK_CONTENT]
    /\ UNCHANGED <<chatIdleVars, request, api_payload, selections, call_count>>

\* Faulty variant: the call is counted before the credential is looked at
ChatNoCredentialCounted ==
    /\ chatpc = "received"
    /\ request.authorized
    /\ ValidRequest(request)
    /\ ~IsHealthCheck(request)
    /\ selections' = selections + 1
    /\ call_count' = call_count + 1
    /\ chatpc' = "done"
    /\ reply' = [status |-> 500, content |-> <<>>]
    /\ UNCHANGED <<chatIdleVars, request, api_payload>>

\* get_valid_credential() returns nothing: 500
ChatNoCredential ==
    /\ chatpc = "received"
    /\ request.authorized
    /\ ValidRequest(request)
    /\ ~IsHealthCheck(request)
    /\ selections' = selections + 1
    /\ chatpc' = "done"
    /\ reply' = [status |-> 500, content |-> <<>>]
    /\ UNCHANGED <<chatIdleVars, request, api_payload, call_count>>

\* A credential is selected, the request is normalized and translated, and
\* the payload is handed to send_gemini_request (or to the fake-stream or
\* anti-truncation wrapper of it); the answer is the response pipeline's.
ChatDispatch(compatibility_mode) ==
    /\ chatpc = "received"
    /\ request.authorized
    /\ ValidRequest(request)
    /\ ~IsHealthCheck(request)
    /\ selections' = selections + 1
    /\ call_count' = call_count + 1
    /\ LET filtered_messages == FilterMessages(request.messages)
           request_data ==
               [request EXCEPT !.max_tokens = ClampMaxTokens(@),
                               !.top_k = [none |-> FALSE, n |-> 64],
                               !.messages = filtered_messages]
       IN  api_payload' =
               [sent |-> TRUE, compatibility_mode |-> compatibility_mode,
                messages |-> filtered_messages,
                request |-> OpenaiRequestToGeminiPayload(request_data, compatibility_mode)]
    /\ chatpc' = "sent"
    /\ UNCHANGED <<chatIdleVars, request, reply>>

TopKValues == { NoTokens, [none |-> FALSE, n |-> 40] }

ChatRequests ==
    [authorized : BOOLEAN, messages : MessageLists, max_tokens : MaxTokensValues,
     top_k : TopKValues]

ChatInit ==
    /\ backend = "pg"
    /\ pg = [ns \in Namespaces |-> EmptyMap]
    /\ vkHash = [ns \in Namespaces |-> EmptyMap]
    /\ vkIndex = [ns \in Namespaces |-> {}]
    /\ now = 0 /\ nops = 0 /\ ret = [op |-> "init"]
    /\ SseIdle
    /\ CfgIdle
    /\ TasksIdle
    /\ request \in ChatRequests
    /\ chatpc = "received"
    /\ reply = NoResponse
    /\ api_payload = NoPayload
    /\ selections = 0
    /\ call_count = 0

ChatNext ==
    \/ ChatForbidden
    \/ ChatInvalid
    \/ ChatHealthCheck
    \/ ChatNoCredential
    \/ \E compatibility_mode \in BOOLEAN : ChatDispatch(compatibility_mode)

SpecChat == ChatInit /\ [][ChatNext]_vars

\* C17: an authenticated request whose messages are exactly one user
\* message with content "Hi" is answered with the canned completion
\* "gcli2api正常工作中", and no credential is selected, the call count is not
\* incremented and nothing is sent to the backend.
C17_HealthCheckShortCircuit ==
    (/\ chatpc # "received"
     /\ request.authorized
     /\ ValidRequest(request)
     /\ request.messages = <<Message("user", StrContent(T_Hi))>>)
    => /\ chatpc = "done"
       /\ reply = [status |-> 200, content |-> HEALTH_CHECK_CONTENT]
       /\ selections = 0
       /\ call_count = 0
       /\ ~api_payload.sent

C17_Witness ==
    /\ chatpc = "done"
    /\ request.authorized
    /\ request.messages = <<Message("user", StrContent(T_Hi))>>
    /\ reply.content = HEALTH_CHECK_CONTENT

\* What the payload is expected to hold: the number of system messages at
\* the head of a message list, the texts they carry, and the contents entry
\* of a message
RECURSIVE LeadingSystem(_)
LeadingSystem(ms) ==
    IF ms # <<>> /\ Head(ms).role = "system" THEN 1 + LeadingSystem(Tail(ms)) ELSE 0

RECURSIVE TextsOf(_)
TextsOf(ms) ==
    IF ms = <<>> THEN <<>> ELSE SystemTexts(Head(ms).content) \o TextsOf(Tail(ms))

ExpectedEntry(m) ==
    [role |-> IF m.role = "system" THEN "user"
              ELSE IF m.role = "assistant" THEN "model" ELSE m.role,
     parts |-> IF m.content.t = "list" THEN GeminiParts(m.content.parts)
               ELSE <<[text |-> m.content.s]>>]

PlaceholderContents == <<[role |-> "user", parts |-> <<[text |-> PLACEHOLDER_TEXT]>>]>>

BlankLine == <<"\n", "\n">>

RECURSIVE BlankLineJoined(_)
BlankLineJoined(texts) ==
    IF Len(texts) <= 1 THEN Concat(texts)
    ELSE Head(texts) \o BlankLine \o BlankLineJoined(Tail(texts))

\* The texts of the system messages lead are joined into systemInstruction
\* and the messages rest are the contents entries, in order
Folded(lead, rest, req) ==
    LET texts == TextsOf(lead)
    IN  /\ texts # <<>> =>
              /\ "systemInstruction" \in DOMAIN req
              /\ req.systemInstruction.parts[1].text = BlankLineJoined(texts)
        /\ req.contents =
              IF rest = <<>> THEN PlaceholderContents
              ELSE [i \in 1..Len(rest) |-> ExpectedEntry(rest[i])]

SystemOrHasContent(m) == m.role = "system" \/ HasContent(m)

BeforeFirstNonSystem(ms) == SubSeq(ms, 1, LeadingSystem(ms))
AfterLeading(ms) == SubSeq(ms, LeadingSystem(ms) + 1, Len(ms))

\* C18: with compatibility mode off, for every message list, the texts of
\* the system messages before the first non-system message are joined with
\* a blank line into systemInstruction.parts[0].text and give no contents
\* entry, and every system message after the first non-system message is a
\* contents entry with role user at its original position.
C18_SystemFoldingEveryMessage ==
    (api_payload.sent /\ ~api_payload.compatibility_mode) =>
        Folded(SelectSeq(BeforeFirstNonSystem(request.messages), HasContent),
               SelectSeq(AfterLeading(request.messages), SystemOrHasContent),
               api_payload.request)

\* C18 as it holds: the same, for the message list that remains when the
\* messages without content (None, empty or blank text, a list without a
\* non-blank text or an image URL) are dropped.
C18_SystemFolding ==
    (api_payload.sent /\ ~api_payload.compatibility_mode) =>
        LET ms == SelectSeq(request.messages, HasContent)
        IN  Folded(BeforeFirstNonSystem(ms), AfterLeading(ms), api_payload.request)

S1S2U ==
    << Message("system", StrContent(T_S1)), Message("system", StrContent(T_S2)),
       Message("user", StrContent(T_U)) >>

C18_Witness ==
    /\ api_payload.sent /\ ~api_payload.compatibility_mode
    /\ request.messages = S1S2U
    /\ api_payload.request.systemInstruction.parts[1].text =
           <<"S", "1", "\n", "\n", "S", "2">>
    /\ api_payload.request.contents = <<[role |-> "user", parts |-> <<[text |-> T_U]>>]>>

\* A system message after a user message becomes a user entry behind it
LaterSystemReached ==
    /\ api_payload.sent /\ ~api_payload.compatibility_mode
    /\ request.messages =
           <<Message("user", StrContent(T_U)), Message("system", StrContent(T_S1))>>
    /\ api_payload.request.contents =
           << [role |-> "user", parts |-> <<[text |-> T_U]>>],
              [role |-> "user", parts |-> <<[text |-> T_S1]>>] >>
    /\ "systemInstruction" \notin DOMAIN api_payload.request

\* C19: with compatibility mode on, for every message list, the payload has
\* no systemInstruction, and every system message with non-empty content
\* (content the empty-message filter keeps) is a contents entry with role
\* user at its original position among the entries.
C19_CompatibilityMode ==
    (api_payload.sent /\ api_payload.compatibility_mode) =>
        LET ms == SelectSeq(request.messages, HasContent)
            contents == api_payload.request.contents
        IN  /\ "systemInstruction" \notin DOMAIN api_payload.request
            /\ ms # <<>> =>
                  /\ Len(contents) = Len(ms)
                  /\ \A i \in 1..Len(ms) :
                        ms[i].role = "system" =>
                            /\ contents[i].role = "user"
                            /\ contents[i].parts = ExpectedEntry(ms[i]).parts

C19_Witness ==
    /\ api_payload.sent /\ api_payload.compatibility_mode
    /\ request.messages = S1S2U
    /\ Len(api_payload.request.contents) = 3
    /\ \A i \in 1..3 : api_payload.request.contents[i].role = "user"
    /\ api_payload.request.contents[1].parts = <<[text |-> T_S1]>>

\* C20: for every accepted chat request, generationConfig.maxOutputTokens of
\* the payload sent to the backend, when present, is at most 65535: a
\* max_tokens above 65535 is replaced by 65535, a smaller one is unchanged.
C20_MaxOutputTokensClamped ==
    api_payload.sent =>
        LET generationConfig == api_payload.request.generationConfig
        IN  /\ "maxOutputTokens" \in DOMAIN generationConfig <=> ~request.max_tokens.none
            /\ ~request.max_tokens.none =>
                  /\ generationConfig.maxOutputTokens <= 65535
                  /\ generationConfig.maxOutputTokens =
                        IF request.max_tokens.n > 65535 THEN 65535
                        ELSE request.max_tokens.n

C20_Witness ==
    /\ api_payload.sent
    /\ ~request.max_tokens.none /\ request.max_tokens.n > 65535
    /\ api_payload.request.generationConfig.maxOutputTokens = 65535

\* A max_tokens at the limit is passed unchanged
AtLimitReached ==
    /\ api_payload.sent
    /\ request.max_tokens = Tokens65535
    /\ api_payload.request.generationConfig.maxOutputTokens = 65535

\* C21: for every accepted chat request, whatever top_k the client sent or
\* omitted, generationConfig of the payload sent to the backend contains
\* topK equal to 64.
C21_TopKForced ==
    api_payload.sent =>
        /\ "topK" \in DOMAIN api_payload.request.generationConfig
        /\ api_payload.request.generationConfig["topK"] = 64

\* C22: for every input message list, whatever role strings the messages
\* carry, every entry of the payload's contents has role user or model.
C22_RolesUserOrModel ==
    api_payload.sent =>
        \A i \in 1..Len(api_payload.request.contents) :
            api_payload.request.contents[i].role \in {"user", "model"}

\* C23: for every request that passes the message filter, contents is not
\* empty, the single placeholder user entry is there exactly when no message
\* produced an entry, and no entry has an empty parts list (a message whose
\* only parts are malformed image URIs yields no entry).
C23_NoEmptyParts ==
    api_payload.sent =>
        LET contents == api_payload.request.contents
            produced == Translate(api_payload.messages,
                                  api_payload.compatibility_mode).contents
        IN  /\ contents # <<>>
            /\ contents = PlaceholderContents <=> produced = <<>>
            /\ \A i \in 1..Len(contents) : contents[i].parts # <<>>

\* The placeholder entry is injected for a request of system messages only
PlaceholderReached ==
    /\ api_payload.sent /\ ~api_payload.compatibility_mode
    /\ request.messages = <<Message("system", StrContent(T_S1))>>
    /\ api_payload.request.contents = PlaceholderContents

-----------------------------------------------------------------------------
(* The unary (non-streaming) response path of chat_completions and         *)
(* gemini_response_to_openai. Parts are the [kind, text] records of the    *)
(* streaming model; a functionCall part carries its name in text and may   *)
(* carry args.                                                             *)

\* C29: when no credential is available for a request that is not a health
\* check, the endpoint answers 500 and nothing else happens: the call count
\* is not incremented, the request is not translated and nothing is sent
\* to the backend.
C29_NoCredential500 ==
    (chatpc = "done" /\ selections > 0) =>
        /\ reply.status = 500
        /\ call_count = 0
        /\ api_payload = NoPayload
        /\ ~IsHealthCheck(request)

C29_Witness ==
    /\ chatpc = "done"
    /\ selections = 1
    /\ reply.status = 500
    /\ call_count = 0
    /\ request.authorized
    /\ request.messages = <<Message("user", StrContent(T_U))>>


MaxParts == 2

FunctionCallPart(name, args) == [kind |-> "fc", text |-> name, args |-> args]

\* A candidate of a unary response; role "none" is a content without role
UnaryCand(i, role, parts, fr) ==
    [index |-> i, role |-> role, parts |-> parts, finishReason |-> fr]

\* The role mapped back is left as the backend gave it
OpenaiRoleUnmapped(role) == IF role = "none" THEN "assistant" ELSE role

\* candidate.get("content", {}).get("role", "assistant"); model -> assistant
OpenaiRole(role) ==
    IF role = "none" THEN "assistant"
    ELSE IF role = "model" THEN "assistant"
    ELSE role

\* _build_message_with_reasoning
BuildMessageWithReasoning(role, content, reasoning_content) ==
    LET message == [role |-> role, content |-> content]
    IN  IF reasoning_content # <<>>
        THEN DictSet(message, "reasoning_content", reasoning_content)
        ELSE message

\* The choice gemini_response_to_openai builds for one candidate
UnaryChoice(candidate) ==
    LET content == ExtractContent(candidate.parts)
                     \o ExtractFirstImageMarkdown(candidate.parts)
        reasoning_content == ExtractReasoning(candidate.parts)
    IN  [ index         |-> candidate.index,
          message       |-> BuildMessageWithReasoning(OpenaiRole(candidate.role),
                                                      content, reasoning_content),
          finish_reason |-> MapFinishReason(candidate.finishReason) ]

\* gemini_response_to_openai: the choices of the completion
GeminiResponseToOpenai(candidates) ==
    [i \in 1..Len(candidates) |-> UnaryChoice(candidates[i])]

\* json.dumps(fc.get("args") or fc.get("arguments") or {})
ArgsJson(args) == IF args = "none" THEN "{}" ELSE args

\* Faulty variant of ToolCallsOfParts: every functionCall part gives an
\* entry, named or not
RECURSIVE ToolCallsOfPartsUnnamed(_)
ToolCallsOfPartsUnnamed(parts) ==
    IF parts = <<>> THEN <<>>
    ELSE (IF Head(parts).kind = "fc"
          THEN << [type |-> "function", name |-> Head(parts).text,
                   arguments |-> ArgsJson(Head(parts).args)] >>
          ELSE <<>>)
         \o ToolCallsOfPartsUnnamed(Tail(parts))

\* The entries one candidate's parts add to tool_calls_by_index
RECURSIVE ToolCallsOfParts(_)
ToolCallsOfParts(parts) ==
    IF parts = <<>> THEN <<>>
    ELSE (IF Head(parts).kind = "fc" /\ Head(parts).text # <<>>
          THEN << [type |-> "function", name |-> Head(parts).text,
                   arguments |-> ArgsJson(Head(parts).args)] >>
          ELSE <<>>)
         \o ToolCallsOfParts(Tail(parts))

\* tool_calls_by_index after the candidates from position i on
RECURSIVE ToolCallsByIndex(_, _, _)
ToolCallsByIndex(candidates, i, by_index) ==
    IF i > Len(candidates) THEN by_index
    ELSE LET idx == candidates[i].index
             calls == ToolCallsOfParts(candidates[i].parts)
         IN  ToolCallsByIndex(candidates, i + 1,
                 IF calls = <<>> THEN by_index
                 ELSE DictSet(by_index, idx, DictGet(by_index, idx, <<>>) \o calls))

\* Tool-call propagation of the unary path: the choices with tool_calls
PropagateToolCalls(candidates, choices) ==
    LET by_index == ToolCallsByIndex(candidates, 1, EmptyMap)
    IN  [i \in 1..Len(choices) |->
            IF choices[i].index \in DOMAIN by_index
            THEN [choices[i] EXCEPT !.message =
                     DictSet(@, "tool_calls", by_index[choices[i].index])]
            ELSE choices[i]]

\* What one call of upload_data_uri_to_picgo meets: the PICGO_UPLOAD_ENABLED
\* and PICGO_API_KEY settings, whether the data URI parses, and what the
\* HTTP call does ("url": a reply with a URL, "nourl": a reply without one,
\* "raise": the call or the decoding of its reply raises)
HttpOutcomes == {"url", "nourl", "raise"}
UploadEnvs == [enabled : BOOLEAN, api_key : BOOLEAN, parses : BOOLEAN]

NotCalled == [called |-> FALSE, raised |-> FALSE, url |-> FALSE]

\* Faulty variant of UploadDataUriToPicgo: the HTTP call is not guarded
UploadDataUriUnguarded(env, http) ==
    IF ~env.enabled \/ ~env.api_key \/ ~env.parses
    THEN [called |-> TRUE, raised |-> FALSE, url |-> FALSE]
    ELSE [called |-> TRUE, raised |-> http = "raise", url |-> http = "url"]

\* upload_data_uri_to_picgo: url is TRUE when a public URL is returned,
\* FALSE when None is
UploadDataUriToPicgo(env, http) ==
    IF ~env.enabled THEN [called |-> TRUE, raised |-> FALSE, url |-> FALSE]
    ELSE IF ~env.api_key THEN [called |-> TRUE, raised |-> FALSE, url |-> FALSE]
    ELSE IF ~env.parses THEN [called |-> TRUE, raised |-> FALSE, url |-> FALSE]
    ELSE IF http = "raise" THEN [called |-> TRUE, raised |-> FALSE, url |-> FALSE]
    ELSE IF http = "nourl" THEN [called |-> TRUE, raised |-> FALSE, url |-> FALSE]
    ELSE [called |-> TRUE, raised |-> FALSE, url |-> TRUE]

HasDataUriImage(content) == \E k \in 1..Len(content) : content[k] = ImgData

\* The uploads of the rehosting block of the unary path, one per choice
\* whose content holds a data-URI image literal
UnaryUploads(choices, env, https) ==
    [i \in 1..Len(choices) |->
        IF HasDataUriImage(choices[i].message.content)
        THEN UploadDataUriToPicgo(env, https[i])
        ELSE NotCalled]

\* The rehosting block of the unary path: an exception leaves the block,
\* and the choices from the failing one on keep their content
RECURSIVE RehostUnary(_, _, _)
RehostUnary(choices, uploads, i) ==
    IF i > Len(choices) THEN choices
    ELSE IF uploads[i].raised THEN choices
    ELSE RehostUnary(
             IF uploads[i].url
             THEN [choices EXCEPT ![i].message.content = ReplaceImages(@)]
             ELSE choices,
             uploads, i + 1)

\* Finish reasons of the backend; "null" stands for a missing finishReason
FinishReasons ==
    {"STOP", "MAX_TOKENS", "SAFETY", "RECITATION", "OTHER", "stop",
     "FINISH_REASON_UNSPECIFIED", "null"}

\* "inline_nodata" is an inlineData part without data, which carries no image
UnaryParts ==
    { TextPart(T_wor), TextPart(T_Hello), TextPart(<<>>),
      [kind |-> "thought", text |-> T_world],
      [kind |-> "inline", text |-> <<>>],
      [kind |-> "file", text |-> <<>>],
      [kind |-> "inline_nodata", text |-> <<>>],
      FunctionCallPart(<<"f">>, "none"),
      FunctionCallPart(<<"g">>, "{\"a\": 1}"),
      FunctionCallPart(<<>>, "none") }

UnaryPartLists == UNION { [1..n -> UnaryParts] : n \in 0..MaxParts }

\* The candidate lists of the backend's unary replies: one candidate with
\* every part list, one candidate with every finish reason and role, and
\* two candidates with distinct or equal indices
UnaryCandidateLists ==
    { << UnaryCand(0, "model", parts, "STOP") >> : parts \in UnaryPartLists }
    \cup
    { << UnaryCand(0, role, <<TextPart(T_wor)>>, fr) >> :
          role \in {"model", "user", "none"}, fr \in FinishReasons }
    \cup
    { << UnaryCand(0, "model", <<p>>, "STOP"), UnaryCand(i, "model", <<q>>, "MAX_TOKENS") >> :
          p \in {TextPart(T_wor), FunctionCallPart(<<"f">>, "none"),
                 [kind |-> "inline", text |-> <<>>]},
          q \in {TextPart(T_Hello), FunctionCallPart(<<"g">>, "{\"a\": 1}"),
                 [kind |-> "inline", text |-> <<>>]},
          i \in {0, 1} }
    \cup { <<>> }

\* The text parts of a payload entry, as parts of a candidate
CandidateParts(parts) == [k \in 1..Len(parts) |-> TextPart(parts[k].text)]

\* The backend echoes an entry of the payload's contents as its candidate
EchoCandidateLists(payload) ==
    { << UnaryCand(0, payload.request.contents[i].role,
                   CandidateParts(payload.request.contents[i].parts), "STOP") >> :
          i \in 1..Len(payload.request.contents) }

\* The unary path after send_gemini_request: the body is translated, tool
\* calls are propagated, images are rehosted, and the completion is returned
UnaryResponse(candidates, env, https) ==
    /\ chatpc = "sent"
    /\ LET translated == GeminiResponseToOpenai(candidates)
           with_tools == PropagateToolCalls(candidates, translated)
           uploads == UnaryUploads(with_tools, env, https)
       IN  reply' = [status |-> 200, kind |-> "completion",
                     candidates |-> candidates, uploads |-> uploads,
                     env |-> env, https |-> https,
                     translated |-> with_tools,
                     content |-> RehostUnary(with_tools, uploads, 1)]
    /\ chatpc' = "done"
    /\ UNCHANGED <<chatIdleVars, request, api_payload, selections, call_count>>

\* upload_remote_image_to_picgo: the image is fetched ("ok": status 200,
\* "non200", or "raise") and handed to upload_data_uri_to_picgo, whose data
\* URI is built here and parses
UploadRemoteImageToPicgo(env, get, http) ==
    IF ~env.enabled THEN [called |-> TRUE, raised |-> FALSE, url |-> FALSE]
    ELSE IF ~env.api_key THEN [called |-> TRUE, raised |-> FALSE, url |-> FALSE]
    ELSE IF get # "ok" THEN [called |-> TRUE, raised |-> FALSE, url |-> FALSE]
    ELSE LET r == UploadDataUriToPicgo([env EXCEPT !.parses = TRUE], http)
         IN  [called |-> TRUE, raised |-> FALSE, url |-> ~r.raised /\ r.url]

\* One call of upload_remote_image_to_picgo
UploadRemoteImage(env, get, http) ==
    /\ chatpc = "sent"
    /\ reply' = [status |-> 0, kind |-> "upload_remote", candidates |-> <<>>,
                 uploads |-> <<UploadRemoteImageToPicgo(env, get, http)>>,
                 env |-> env, https |-> <<http>>, get |-> get,
                 translated |-> <<>>, content |-> <<>>]
    /\ chatpc' = "done"
    /\ UNCHANGED <<chatIdleVars, request, api_payload, selections, call_count>>

\* The body of the backend's reply is not JSON: 500
UnaryBadResponse ==
    /\ chatpc = "sent"
    /\ reply' = [status |-> 500, kind |-> "error", candidates |-> <<>>,
                 uploads |-> <<>>, translated |-> <<>>, content |-> <<>>]
    /\ chatpc' = "done"
    /\ UNCHANGED <<chatIdleVars, request, api_payload, selections, call_count>>

\* gemini_stream_chunk_to_openai applied to one chunk of a streamed reply
StreamChunkTranslation(candidates) ==
    /\ chatpc = "sent"
    /\ reply' = [status |-> 200, kind |-> "chunk", candidates |-> candidates,
                 uploads |-> <<>>,
                 translated |-> GeminiStreamChunkToOpenai([cands |-> candidates]),
                 content |-> <<>>]
    /\ chatpc' = "done"
    /\ UNCHANGED <<chatIdleVars, request, api_payload, selections, call_count>>

PlainMessages ==
    { Message("user", StrContent(T_U)), Message("assistant", StrContent(T_A)),
      Message("user", StrContent(T_Hi)), Message("assistant", StrContent(T_Hi)) }

PlainRequests ==
    { [authorized |-> TRUE, messages |-> ms, max_tokens |-> NoTokens, top_k |-> NoTokens] :
          ms \in [1..1 -> PlainMessages]
                   \cup [1..2 -> {Message("user", StrContent(T_U)),
                                  Message("assistant", StrContent(T_A))}] }

\* SpecTranslate starts where ChatDispatch ends: a request has been
\* translated and sent, and the backend's reply is awaited
TranslateInit ==
    /\ backend = "pg"
    /\ pg = [ns \in Namespaces |-> EmptyMap]
    /\ vkHash = [ns \in Namespaces |-> EmptyMap]
    /\ vkIndex = [ns \in Namespaces |-> {}]
    /\ now = 0 /\ nops = 0 /\ ret = [op |-> "init"]
    /\ SseIdle
    /\ CfgIdle
    /\ TasksIdle
    /\ request \in { r \in PlainRequests : ~IsHealthCheck(r) }
    /\ chatpc = "sent"
    /\ reply = NoResponse
    /\ api_payload =
           [sent |-> TRUE, compatibility_mode |-> FALSE,
            messages |-> FilterMessages(request.messages),
            request |-> OpenaiRequestToGeminiPayload(
                            [request EXCEPT !.top_k = [none |-> FALSE, n |-> 64]], FALSE)]
    /\ selections = 1
    /\ call_count = 1

StreamCandidateLists ==
    { << Cand(0, parts, fr) >> : parts \in UnaryPartLists, fr \in {"STOP", "null"} }
    \cup { << Cand(0, <<TextPart(T_wor)>>, fr) >> : fr \in FinishReasons }

\* The replies the backend can give to the request sent, each with what
\* the uploads of its images meet
UnaryResponses ==
    /\ chatpc = "sent"
    /\ \E candidates \in UnaryCandidateLists \cup EchoCandidateLists(api_payload),
          env \in UploadEnvs :
          \E https \in [1..Len(candidates) -> HttpOutcomes] :
              UnaryResponse(candidates, env, https)

StreamChunkTranslations ==
    /\ chatpc = "sent"
    /\ \E candidates \in StreamCandidateLists : StreamChunkTranslation(candidates)

UploadRemoteImages ==
    /\ chatpc = "sent"
    /\ \E env \in UploadEnvs, get \in {"ok", "non200", "raise"}, http \in HttpOutcomes :
          UploadRemoteImage(env, get, http)

TranslateNext ==
    \/ UnaryResponses
    \/ UnaryBadResponse
    \/ StreamChunkTranslations
    \/ UploadRemoteImages

SpecTranslate == TranslateInit /\ [][TranslateNext]_vars

\* C24: for every backend finishReason r, in the unary and in the streaming
\* translation, finish_reason is "stop" iff r = STOP, "length" iff
\* r = MAX_TOKENS, "content_filter" iff r is SAFETY or RECITATION, and null
\* for every other value, a missing one included.
C24_FinishReasonTable ==
    (chatpc = "done" /\ reply.kind \in {"completion", "chunk"}) =>
        /\ Len(reply.translated) = Len(reply.candidates)
        /\ \A i \in 1..Len(reply.candidates) :
              LET r == reply.candidates[i].finishReason
                  f == reply.translated[i].finish_reason
              IN  /\ f = "stop" <=> r = "STOP"
                  /\ f = "length" <=> r = "MAX_TOKENS"
                  /\ f = "content_filter" <=> r \in {"SAFETY", "RECITATION"}
                  /\ f = "null" <=> r \notin {"STOP", "MAX_TOKENS", "SAFETY", "RECITATION"}

C24_Witness ==
    /\ chatpc = "done" /\ reply.kind = "completion"
    /\ Len(reply.candidates) = 1
    /\ reply.candidates[1].finishReason = "RECITATION"
    /\ reply.translated[1].finish_reason = "content_filter"

\* The streaming translation maps a missing finishReason to null
StreamNullReached ==
    /\ chatpc = "done" /\ reply.kind = "chunk"
    /\ Len(reply.candidates) = 1
    /\ reply.candidates[1].finishReason = "null"
    /\ reply.translated[1].finish_reason = "null"

\* C25: a message with role user or assistant and plain text content is
\* translated to a contents entry with role user or model (assistant becomes
\* model), and a candidate carrying that entry's role and text is translated
\* back to a message with the original role and the original text.
C25_RoleTextRoundTrip ==
    (chatpc = "done" /\ reply.kind = "completion" /\ Len(reply.candidates) = 1) =>
        /\ Len(api_payload.request.contents) = Len(request.messages)
        /\ \A i \in 1..Len(request.messages) :
              LET m == request.messages[i]
                  entry == api_payload.request.contents[i]
                  c == reply.candidates[1]
              IN  /\ entry.role = (IF m.role = "assistant" THEN "model" ELSE "user")
                  /\ entry.parts = <<[text |-> m.content.s]>>
                  /\ (c.role = entry.role /\ c.parts = <<TextPart(m.content.s)>>) =>
                        /\ reply.content[1].message.role = m.role
                        /\ reply.content[1].message.content = m.content.s

C25_Witness ==
    /\ chatpc = "done" /\ reply.kind = "completion"
    /\ request.messages = <<Message("assistant", StrContent(T_A))>>
    /\ api_payload.request.contents = <<[role |-> "model", parts |-> <<[text |-> T_A]>>]>>
    /\ reply.candidates = <<UnaryCand(0, "model", <<TextPart(T_A)>>, "STOP")>>
    /\ reply.content[1].message.role = "assistant"
    /\ reply.content[1].message.content = T_A

IsPlainText(part) == part.kind = "text"
IsThought(part) == part.kind = "thought"
IsImage(part) == part.kind \in {"inline", "file"}

TextsOfParts(parts) == [k \in 1..Len(parts) |-> parts[k].text]

FirstImageLiteral(parts) ==
    LET images == SelectSeq(parts, IsImage)
    IN  IF images = <<>> THEN <<>>
        ELSE <<"\n", "\n", IF images[1].kind = "inline" THEN ImgData ELSE ImgUrl>>

\* C26: for every candidate's part list, the translated content is the
\* in-order concatenation of the text of the parts whose thought flag is not
\* true, followed by a Markdown image literal for the first part carrying
\* inline data or a file URI only (if any); reasoning_content is the in-order
\* concatenation of the text of the parts whose thought flag is true, and is
\* omitted when that concatenation is empty.
C26_ContentAndReasoning ==
    (chatpc = "done" /\ reply.kind = "completion") =>
        \A i \in 1..Len(reply.candidates) :
            LET parts == reply.candidates[i].parts
                message == reply.translated[i].message
                reasoning == Concat(TextsOfParts(SelectSeq(parts, IsThought)))
            IN  /\ message.content =
                       Concat(TextsOfParts(SelectSeq(parts, IsPlainText)))
                         \o FirstImageLiteral(parts)
                /\ "reasoning_content" \in DOMAIN message <=> reasoning # <<>>
                /\ reasoning # <<>> => message.reasoning_content = reasoning

C26_Witness ==
    /\ chatpc = "done" /\ reply.kind = "completion"
    /\ reply.candidates =
           << UnaryCand(0, "model",
                        << [kind |-> "thought", text |-> T_world], TextPart(T_wor) >>,
                        "STOP") >>
    /\ reply.translated[1].message.content = T_wor
    /\ "reasoning_content" \in DOMAIN reply.translated[1].message
    /\ reply.translated[1].message.reasoning_content = T_world

\* Of two image parts only the first gives a literal, after the text
FirstImageOnlyReached ==
    /\ chatpc = "done" /\ reply.kind = "completion"
    /\ reply.candidates =
           << UnaryCand(0, "model",
                        << [kind |-> "file", text |-> <<>>],
                           [kind |-> "inline", text |-> <<>>] >>,
                        "STOP") >>
    /\ reply.translated[1].message.content = <<"\n", "\n", ImgUrl>>
    /\ "reasoning_content" \notin DOMAIN reply.translated[1].message

IsNamedCall(part) == part.kind = "fc" /\ part.text # <<>>

DistinctIndices(candidates) ==
    \A i, j \in 1..Len(candidates) : candidates[i].index = candidates[j].index => i = j

TwoCandidatesReached ==
    /\ chatpc = "done" /\ reply.kind = "completion"
    /\ reply.candidates =
           << UnaryCand(0, "model", <<FunctionCallPart(<<"f">>, "none")>>, "STOP"),
              UnaryCand(1, "model", <<FunctionCallPart(<<"g">>, "{\"a\": 1}")>>,
                        "MAX_TOKENS") >>
    /\ "tool_calls" \in DOMAIN reply.content[1].message
    /\ Len(reply.content[1].message.tool_calls) = 1
    /\ Len(reply.content[2].message.tool_calls) = 1

\* C28: the image upload operations never raise: they return None when
\* rehosting is disabled, the API key is missing, the data URI does not
\* parse, the HTTP call fails or the host's reply holds no URL; and whenever
\* an upload returns None, the content delivered still holds the original
\* data-URI Markdown unchanged and the request completes normally.
C28_UploadNeverFatal ==
    /\ (chatpc = "done" /\ reply.kind = "completion") =>
          /\ reply.status = 200
          /\ \A i \in 1..Len(reply.uploads) :
                LET upload == reply.uploads[i]
                IN  /\ ~upload.raised
                    /\ upload.called =>
                          /\ upload.url <=>
                                (/\ reply.env.enabled /\ reply.env.api_key
                                 /\ reply.env.parses /\ reply.https[i] = "url")
                          /\ ~upload.url =>
                                /\ reply.content[i].message.content =
                                       reply.translated[i].message.content
                                /\ HasDataUriImage(reply.content[i].message.content)
    /\ (chatpc = "done" /\ reply.kind = "upload_remote") =>
          /\ ~reply.uploads[1].raised
          /\ reply.uploads[1].url <=>
                (/\ reply.env.enabled /\ reply.env.api_key
                 /\ reply.get = "ok" /\ reply.https[1] = "url")

C28_Witness ==
    /\ chatpc = "done" /\ reply.kind = "completion"
    /\ reply.env = [enabled |-> TRUE, api_key |-> TRUE, parses |-> TRUE]
    /\ reply.candidates = << UnaryCand(0, "model", <<[kind |-> "inline", text |-> <<>>]>>, "STOP") >>
    /\ reply.https = <<"raise">>
    /\ reply.uploads = <<[called |-> TRUE, raised |-> FALSE, url |-> FALSE]>>
    /\ reply.content[1].message.content = <<"\n", "\n", ImgData>>

\* An upload that returns a URL replaces the literal
RehostedReached ==
    /\ chatpc = "done" /\ reply.kind = "completion"
    /\ reply.candidates = << UnaryCand(0, "model", <<[kind |-> "inline", text |-> <<>>]>>, "STOP") >>
    /\ reply.uploads = <<[called |-> TRUE, raised |-> FALSE, url |-> TRUE]>>
    /\ reply.content[1].message.content = <<"\n", "\n", ImgUrl>>

-----------------------------------------------------------------------------
(* GET /v1/models: authenticate and list_models of the OpenAI router, and *)
(* the listing in Gemini format that the application serves for the same  *)
(* path when the password comes as ?key=                                   *)

MaxModels == 2

NoCredentials == "none"
Passwords == {"pwd", "bad"}
ModelIds == {"gemini-2.5-pro", "gemini-2.5-flash", "gemini-2.5-pro-search"}

\* get_available_models("openai")
AvailableModels == UNION { [1..n -> ModelIds] : n \in 0..MaxModels }

\* Model(id=m): object "model", owned_by "google"
Model(m) == [id |-> m, object |-> "model", owned_by |-> "google"]

\* ModelList(data=[Model(id=m) for m in models])
ModelList(models) ==
    [object |-> "list", data |-> [i \in 1..Len(models) |-> Model(models[i])]]

\* The listing in Gemini format
GeminiModelList(models) ==
    [models |-> [i \in 1..Len(models) |-> [name |-> "models/" \o models[i]]]]

\* Faulty variant: any bearer token is let through
AuthenticateAnyToken(token, password) == TRUE

\* authenticate: token != password raises 403
Authenticate(token, password) == token = password

\* No Authorization header and no ?key=: 401
ModelsUnauthenticated ==
    /\ chatpc = "models"
    /\ request.bearer = NoCredentials /\ request.key = NoCredentials
    /\ chatpc' = "done"
    /\ reply' = [status |-> 401, content |-> EmptyMap]
    /\ UNCHANGED <<chatIdleVars, request, api_payload, selections, call_count>>

\* A bearer token that is not the password: 403
ModelsForbidden ==
    /\ chatpc = "models"
    /\ request.bearer # NoCredentials
    /\ ~Authenticate(request.bearer, request.password)
    /\ chatpc' = "done"
    /\ reply' = [status |-> 403, content |-> EmptyMap]
    /\ UNCHANGED <<chatIdleVars, request, api_payload, selections, call_count>>

\* list_models: the listing in OpenAI format
ListModels ==
    /\ chatpc = "models"
    /\ request.bearer # NoCredentials
    /\ Authenticate(request.bearer, request.password)
    /\ chatpc' = "done"
    /\ reply' = [status |-> 200, content |-> ModelList(request.models)]
    /\ UNCHANGED <<chatIdleVars, request, api_payload, selections, call_count>>

\* No bearer token and a ?key= that is not the password: 403
GeminiModelsForbidden ==
    /\ chatpc = "models"
    /\ request.bearer = NoCredentials /\ request.key # NoCredentials
    /\ request.key # request.password
    /\ chatpc' = "done"
    /\ reply' = [status |-> 403, content |-> EmptyMap]
    /\ UNCHANGED <<chatIdleVars, request, api_payload, selections, call_count>>

\* No bearer token and the password as ?key=: the listing in Gemini format
GeminiListModels ==
    /\ chatpc = "models"
    /\ request.bearer = NoCredentials /\ request.key # NoCredentials
    /\ request.key = request.password
    /\ chatpc' = "done"
    /\ reply' = [status |-> 200, content |-> GeminiModelList(request.models)]
    /\ UNCHANGED <<chatIdleVars, request, api_payload, selections, call_count>>

ModelsRequests ==
    [bearer : Passwords \cup {NoCredentials}, key : Passwords \cup {NoCredentials},
     password : Passwords, models : AvailableModels]

ModelsInit ==
    /\ backend = "pg"
    /\ pg = [ns \in Namespaces |-> EmptyMap]
    /\ vkHash = [ns \in Namespaces |-> EmptyMap]
    /\ vkIndex = [ns \in Namespaces |-> {}]
    /\ now = 0 /\ nops = 0 /\ ret = [op |-> "init"]
    /\ SseIdle
    /\ CfgIdle
    /\ TasksIdle
    /\ request \in ModelsRequests
    /\ chatpc = "models"
    /\ reply = NoResponse
    /\ api_payload = NoPayload
    /\ selections = 0
    /\ call_count = 0

ModelsNext ==
    \/ ModelsUnauthenticated
    \/ ModelsForbidden
    \/ ListModels
    \/ GeminiModelsForbidden
    \/ GeminiListModels

SpecModels == ModelsInit /\ [][ModelsNext]_vars

WrongBearerReached ==
    /\ chatpc = "done"
    /\ request.bearer = "bad" /\ request.password = "pwd"
    /\ reply.status = 403
====
